---------------------------- MODULE Spec2Model ----------------------------
(***************************************************************************)
(* A model of src/src/compare_motifs_helper.cpp (universalmotif): the      *)
(* motif comparison / alignment / merge engine and the p-value lookup.     *)
(*                                                                         *)
(* Numbers.  A C++ double is modelled as a fixed-point integer in units of *)
(* 1/Scale (so 1.0 is Scale and the smoothing constant 0.01 is Scale/100), *)
(* together with the IEEE special values NaN, +Inf and -Inf, which the     *)
(* code can produce by dividing by a zero column count.  DBL_MAX is the    *)
(* largest finite value.  A C++ int is modelled with a reduced width       *)
(* (INT_MIN..INT_MAX); signed overflow is undefined behaviour and is a     *)
(* nondeterministic choice.                                                *)
(***************************************************************************)
EXTENDS Integers, Sequences, FiniteSets, TLC

VARIABLES
  \* ---- pval_extractor (lines 1516-1596) ----
  subject,      \* table column: subject widths, ascending
  target,       \* table column: target widths
  ncols,        \* <<m1, m2>> per score: ncols[indices1[i]], ncols[indices2[i]]
  scores,       \* the raw scores
  pv_method,    \* the metric name, which selects the tail
  pv_pc,        \* position of pval_extractor: "for", "while", "done", "error"
  pv_i,         \* the for loop's index (1-based here)
  n1, n2,       \* the clamped, then incremented, widths
  row,          \* the table row found, -1 when given up (0-based as in the code)
  ok,           \* the while loop's flag
  pvals,        \* the result vector
  distribution, \* table column: the distribution family of each row
  \* ---- one call of compare_motif_pair / merge_motif_pair / find_offsets ----
  p_pc,         \* "input", then "compared", "merged" or "offsets"
  p_mot1,       \* the two motifs, as the entry points hand them over
  p_mot2,
  p_bkg1,       \* their backgrounds
  p_bkg2,
  p_method,     \* metric name
  p_strat,      \* aggregation strategy name
  p_moverlap,   \* minimum overlap: a fraction below 1.0, else a column count
  p_RC,         \* reverse-complement search
  p_norm,       \* alignment-length normalisation
  p_minic,      \* mean-IC threshold of an alignment
  p_posic,      \* per-position IC threshold
  p_als,        \* compare_motif_pair: the forward alignments, in loop order
  p_alsrc,      \* compare_motif_pair: the alignments of the nested RC call
  p_score,      \* compare_motif_pair: the returned score
  p_best,       \* merge_motif_pair / find_offsets: scores, offset, use_rc
  p_merged,     \* merge_motif_pair: the returned motif
  \* ---- one call of an entry point (lines 1140-1462) ----
  e_fn,         \* the entry point that is called
  e_pc,         \* "start", "convert", "ic", "parallel", "serial", then
                \* "done", "error" (Rcpp::stop) or "crash"
  e_mots,       \* argument mots: R matrices
  e_bkg0,       \* argument bkg as it is passed in
  e_bkg,        \* bkg as fix_mot_bkg_zeros changes it in place
  e_index1,     \* arguments index1, index2 of compare_motifs_cpp (0-based)
  e_index2,
  e_method,     \* argument method
  e_strat,      \* argument strat
  e_args,       \* arguments type, minic, posic
  e_nthreads,   \* argument nthreads
  e_i,          \* index of the conversion loop
  e_vmots,      \* vmots, as far as converted
  e_ic,         \* icscores
  e_reads,      \* the elements read so far: <<collection, 0-based index>>
  e_tables,     \* the keys of METRICS_enum and SCORESTRAT_enum
  t_pc,         \* per parallel task: "wait", "absent", "found", "done"
  e_answers,    \* answers, one slot per task
  e_writers,    \* per memory location the tasks that wrote it
  e_scores,     \* the scores computed by the serial entry points
  e_out,        \* the value returned by the serial entry points
  \* ---- merge_motifs_cpp, fold by fold (lines 1435-1455) ----
  m_i,          \* index of the next motif to fold in (0-based, as i in the code)
  m_acc,        \* merged, mergedbkg, mergedic, nnsites and weight after the last fold
  m_calls,      \* per fold made: the weight and the nsites of the first operand passed
  \* ---- one call of a helper function on its own ----
  u_fn,         \* the helper that is called
  u_pc,         \* "input", then "done"
  u_in,         \* its arguments
  u_out         \* what it returns or leaves in its reference arguments

pvVars == <<subject, target, distribution, ncols, scores, pv_method, pv_pc,
            pv_i, n1, n2, row, ok, pvals>>

prInputs == <<p_mot1, p_mot2, p_bkg1, p_bkg2, p_method, p_strat, p_moverlap,
              p_RC, p_norm, p_minic, p_posic>>
prVars == <<p_pc, prInputs, p_als, p_alsrc, p_score, p_best, p_merged>>

enInputs == <<e_fn, e_mots, e_bkg0, e_index1, e_index2, e_method, e_strat, e_args, e_nthreads>>
enVars == <<enInputs, e_pc, e_bkg, e_i, e_vmots, e_ic, e_reads, e_tables, t_pc,
            e_answers, e_writers, e_scores, e_out>>

mgVars == <<m_i, m_acc, m_calls>>

fnVars == <<u_fn, u_pc, u_in, u_out>>

vars == <<pvVars, prVars, enVars, mgVars, fnVars>>

(***************************************************************************)
(* Fixed-point doubles                                                     *)
(***************************************************************************)
\* the fixed-point unit: 1.0 == Scale, resolution 0.001
Scale == 10 * 10 * 10

\* std::numeric_limits<double>::max(), the largest finite double
DBL_MAX == 2000000000

\* IEEE +infinity, -infinity and NaN
PosInf == 2100000000
NegInf == -2100000000
NaN == 2140000000

IsNaN(x) == x = NaN
IsInf(x) == x = PosInf \/ x = NegInf
IsFinite(x) == ~IsNaN(x) /\ ~IsInf(x)

\* C++ a < b on doubles: false whenever an operand is NaN
FLt(a, b) == ~IsNaN(a) /\ ~IsNaN(b) /\ a < b
\* C++ a > b on doubles
FGt(a, b) == FLt(b, a)
\* C++ a >= b on doubles
FGe(a, b) == ~IsNaN(a) /\ ~IsNaN(b) /\ a >= b

\* integer division truncating toward zero (sign symmetric, like IEEE rounding)
TruncDiv(a, b) == IF a >= 0 THEN a \div b ELSE -((-a) \div b)

Abs(x) == IF x < 0 THEN -x ELSE x
\* std::min / std::max and the ?: selections of the smaller / larger size
Min2(a, b) == IF a <= b THEN a ELSE b
Max2(a, b) == IF a >= b THEN a ELSE b
Sign(x) == IF x < 0 THEN -1 ELSE IF x > 0 THEN 1 ELSE 0

\* a finite result that overflows the finite range becomes an infinity
Clip(x) == IF x > DBL_MAX THEN PosInf ELSE IF x < -DBL_MAX THEN NegInf ELSE x

\* double + double
FAdd(a, b) ==
  IF IsNaN(a) \/ IsNaN(b) THEN NaN
  ELSE IF IsInf(a) /\ IsInf(b) THEN (IF a = b THEN a ELSE NaN)
  ELSE IF IsInf(a) THEN a
  ELSE IF IsInf(b) THEN b
  ELSE a + b

\* double * double (both fixed-point)
FMul(a, b) ==
  IF IsNaN(a) \/ IsNaN(b) THEN NaN
  ELSE IF IsInf(a) \/ IsInf(b)
       THEN (IF a = 0 \/ b = 0 THEN NaN
             ELSE IF Sign(a) * Sign(b) > 0 THEN PosInf ELSE NegInf)
  ELSE TruncDiv(a * b, Scale)

\* double * double(k) for a C++ integer k (a count or a width)
FMulInt(a, k) ==
  IF IsNaN(a) THEN NaN
  ELSE IF IsInf(a)
       THEN (IF k = 0 THEN NaN ELSE IF Sign(a) * Sign(k) > 0 THEN PosInf ELSE NegInf)
  ELSE a * k

\* double / double(k) for a C++ integer k: x/0 is +-Inf and 0/0 is NaN
FDivInt(a, k) ==
  IF IsNaN(a) THEN NaN
  ELSE IF k = 0
       THEN (IF a = 0 THEN NaN ELSE IF a > 0 THEN PosInf ELSE NegInf)
  ELSE IF IsInf(a) THEN (IF Sign(a) * Sign(k) > 0 THEN PosInf ELSE NegInf)
  ELSE TruncDiv(a, k)

\* double / double (both fixed-point)
FDiv(a, b) ==
  IF IsNaN(a) \/ IsNaN(b) THEN NaN
  ELSE IF IsInf(a) /\ IsInf(b) THEN NaN
  ELSE IF IsInf(a) THEN (IF Sign(a) * Sign(b) >= 0 THEN PosInf ELSE NegInf)
  ELSE IF IsInf(b) THEN 0
  ELSE IF b = 0
       THEN (IF a = 0 THEN NaN ELSE IF a > 0 THEN PosInf ELSE NegInf)
  ELSE TruncDiv(a * Scale, b)


\* double - double
FSub(a, b) == FAdd(a, IF IsNaN(b) THEN NaN ELSE -b)

\* floor of the square root of a natural number, by bisection
RECURSIVE ISqrtIn(_, _, _)
ISqrtIn(y, lo, hi) ==
  IF lo >= hi THEN lo
  ELSE LET mid == (lo + hi + 1) \div 2
       IN IF mid * mid <= y THEN ISqrtIn(y, mid, hi) ELSE ISqrtIn(y, lo, mid - 1)
ISqrt(y) == ISqrtIn(y, 0, 46340)

\* sqrt(x)
FSqrt(x) ==
  IF IsNaN(x) \/ x < 0 THEN NaN
  ELSE IF x = PosInf THEN PosInf
  ELSE ISqrt(x * Scale)

\* the mantissa unit of the logarithm and the exponential: 2^14
MantOne == 128 * 128
\* fraction bits computed by the logarithm and used by the exponential
FracBits == 10 + 0
RECURSIVE Pow2(_)
Pow2(k) == IF k = 0 THEN 1 ELSE 2 * Pow2(k - 1)

\* x > 0 finite as <<e, m>> with x/Scale = 2^e * m/MantOne, MantOne <= m < 2 MantOne
RECURSIVE Normalise(_, _)
Normalise(x, e) ==
  IF x < Scale THEN Normalise(2 * x, e - 1)
  ELSE IF x >= 2 * Scale THEN Normalise(x \div 2, e + 1)
  ELSE <<e, (x * MantOne) \div Scale>>

\* the first k fraction bits of log2(m/MantOne), by repeated squaring
RECURSIVE Log2Frac(_, _)
Log2Frac(m, k) ==
  IF k = 0 THEN 0
  ELSE LET sq == (m * m) \div MantOne
       IN IF sq >= 2 * MantOne
          THEN Pow2(k - 1) + Log2Frac(sq \div 2, k - 1)
          ELSE Log2Frac(sq, k - 1)

\* log2(x)
FLog2(x) ==
  IF IsNaN(x) \/ x < 0 THEN NaN
  ELSE IF x = PosInf THEN PosInf
  ELSE IF x = 0 THEN NegInf
  ELSE LET n == Normalise(x, 0)
       IN n[1] * Scale + (Log2Frac(n[2], FracBits) * Scale) \div Pow2(FracBits)

\* log(x), the natural logarithm: log2(x) * ln 2
FLog(x) ==
  LET l == FLog2(x)
  IN IF IsFinite(l) THEN TruncDiv(l * 693, 1000) ELSE l

\* 2^(2^-k) in units of 1/MantOne, k = 1..FracBits
Pow2Root == <<23170, 19484, 17867, 17109, 16743, 16562, 16473, 16428, 16406, 16395>>

\* 2^(f/Scale) in units of 1/MantOne for 0 <= f < Scale, bit by bit
RECURSIVE Exp2Frac(_, _, _)
Exp2Frac(f, k, acc) ==
  IF k > FracBits THEN acc
  ELSE LET bit == Scale \div Pow2(k)
       IN IF bit > 0 /\ f >= bit
          THEN Exp2Frac(f - bit, k + 1, (acc * Pow2Root[k]) \div MantOne)
          ELSE Exp2Frac(f, k + 1, acc)

\* exp(x): 2^(x * log2 e)
FExp(x) ==
  IF IsNaN(x) THEN NaN
  ELSE IF x = PosInf THEN PosInf
  ELSE IF x = NegInf THEN 0
  ELSE LET y == TruncDiv(x * 1443, 1000)
           ip == y \div Scale
           m == Exp2Frac(y - ip * Scale, 1, MantOne)
       IN IF ip > 19 THEN PosInf
          ELSE IF ip < -11 THEN 0
          ELSE IF ip >= 0 THEN ((m * Scale) \div MantOne) * Pow2(ip)
          ELSE (m * Scale) \div (MantOne * Pow2(-ip))

\* the global abs applied to a double (lines 261, 1547)
abs(x) == IF IsNaN(x) THEN NaN ELSE IF x < 0 THEN -x ELSE x

(***************************************************************************)
(* C++ int, reduced width                                                  *)
(***************************************************************************)
\* the largest int of the model (the program's is 2^31 - 1)
INT_MAX == 7
INT_MIN == -INT_MAX - 1

\* ++n on an int: signed overflow is undefined behaviour; the outcomes
\* modelled are wrap-around and a trap (TRAP)
TRAP == INT_MAX + 1
IntInc(n) == IF n < INT_MAX THEN {n + 1} ELSE {INT_MIN, TRAP}

(***************************************************************************)
(* Name -> code tables (lines 10-75).  operator[] on an unordered_map      *)
(* returns the code of a known name and value-initialises (0) an unknown   *)
(* one.                                                                    *)
(***************************************************************************)
METRICS_enum ==
  ("EUCL" :> 1) @@ ("KL" :> 2) @@ ("HELL" :> 3) @@ ("IS" :> 4) @@
  ("SEUCL" :> 5) @@ ("MAN" :> 6) @@ ("PCC" :> 7) @@ ("SW" :> 8) @@
  ("ALLR" :> 9) @@ ("BHAT" :> 10) @@ ("ALLR_LL" :> 11)

SCORESTRAT_enum ==
  ("sum" :> 1) @@ ("a.mean" :> 2) @@ ("g.mean" :> 3) @@ ("median" :> 4)

STRATS_enum == ("normal" :> 1) @@ ("logistic" :> 2) @@ ("weibull" :> 3)

\* ::X_enum[name]
Lookup(table, name) == IF name \in DOMAIN table THEN table[name] ELSE 0

(***************************************************************************)
(* Aggregator (lines 92-159)                                               *)
(***************************************************************************)
\* the result of reading past the end of an empty vector (score_median of
\* no values dereferences a null data pointer): the call does not return
Crash == 2145000000

RECURSIVE SeqSumFrom(_, _)
SeqSumFrom(s, i) == IF i > Len(s) THEN 0 ELSE FAdd(s[i], SeqSumFrom(s, i + 1))
\* std::accumulate(begin, end, 0.0)
Accumulate(s) == SeqSumFrom(s, 1)

score_sum(scs) == Accumulate(scs)

score_amean(scs, n) == FDivInt(Accumulate(scs), n)

\* the mutant of score_amean: the raw array length as the denominator
score_amean_rawlen(scs, n) == FDivInt(Accumulate(scs), Len(scs))

score_gmean(scs) ==
  LET logs == [i \in 1..Len(scs) |-> IF FGt(scs[i], 0) THEN FLog(scs[i]) ELSE 0]
      sum == Accumulate(logs)
  IN IF sum = 0 THEN 0 ELSE FExp(FDivInt(sum, Len(scs)))

score_median(scs) ==
  LET sorted == SortSeq(scs, LAMBDA a, b : a < b)
      sz == Len(scs)
  IN IF sz = 1 THEN scs[1]
     ELSE IF sz = 0 THEN Crash
     ELSE IF sz % 2 = 0
          THEN FDivInt(FAdd(sorted[sz \div 2], sorted[sz \div 2 + 1]), 2)
          ELSE sorted[sz \div 2 + 1]

RECURSIVE KeepFrom(_, _, _)
KeepFrom(scs, good, i) ==
  IF i > Len(scs) THEN <<>>
  ELSE (IF good[i] THEN <<scs[i]>> ELSE <<>>) \o KeepFrom(scs, good, i + 1)
keep_good(scs, good, n) == KeepFrom(scs, good, 1)

\* the default of calc_final_score: -333.333
UnknownStratScore == -(333 * Scale + (333 * Scale) \div 1000)

calc_final_score(scs, strat, n, good) ==
  CASE Lookup(SCORESTRAT_enum, strat) = 1 -> score_sum(scs)
    [] Lookup(SCORESTRAT_enum, strat) = 2 -> score_amean(scs, n)
    [] Lookup(SCORESTRAT_enum, strat) = 3 -> score_gmean(keep_good(scs, good, n))
    [] Lookup(SCORESTRAT_enum, strat) = 4 -> score_median(keep_good(scs, good, n))
    [] OTHER -> UnknownStratScore

(***************************************************************************)
(* Metric library (lines 161-520).  A motif is a sequence of columns, a    *)
(* column a sequence of doubles, one per alphabet symbol; a padding column *)
(* holds -1.0 in every entry.                                              *)
(***************************************************************************)
\* mot[i][0] >= 0: column c holds real data
IsData(c) == FGe(c[1], 0)

\* the good vector and the count n of every compare_*()
GoodCols(mot1, mot2) == [i \in 1..Len(mot1) |-> IsData(mot1[i]) /\ IsData(mot2[i])]
CountTrue(g) == Cardinality({i \in DOMAIN g : g[i]})

\* the sum over the alphabet of F(a[j], b[j])
RECURSIVE SumOverRows(_, _, _, _)
SumOverRows(F(_, _), a, b, j) ==
  IF j > Len(a) THEN 0 ELSE FAdd(F(a[j], b[j]), SumOverRows(F, a, b, j + 1))

Sq(x) == FMul(x, x)

col_eucl(a, b) == FSqrt(SumOverRows(LAMBDA x, y : Sq(FSub(x, y)), a, b, 1))

col_seucl(a, b) == SumOverRows(LAMBDA x, y : Sq(FSub(x, y)), a, b, 1)

col_man(a, b) == SumOverRows(LAMBDA x, y : abs(FSub(x, y)), a, b, 1)

col_hell(a, b) ==
  FDiv(FSqrt(SumOverRows(LAMBDA x, y : Sq(FSub(FSqrt(x), FSqrt(y))), a, b, 1)),
       FSqrt(2 * Scale))

col_bhat(a, b) == SumOverRows(LAMBDA x, y : FSqrt(FMul(x, y)), a, b, 1)

col_is(a, b) ==
  SumOverRows(LAMBDA x, y : FSub(FSub(FDiv(x, y), FLog(FDiv(x, y))), Scale), a, b, 1)

col_kl(a, b) ==
  FDivInt(SumOverRows(LAMBDA x, y : FAdd(FMul(x, FLog(FDiv(x, y))),
                                         FMul(y, FLog(FDiv(y, x)))), a, b, 1), 2)

col_sw(a, b) == FSub(2 * Scale, SumOverRows(LAMBDA x, y : Sq(FSub(x, y)), a, b, 1))

col_pcc(a, b) ==
  LET nrow == Len(a)
      sab == SumOverRows(LAMBDA x, y : FMul(x, y), a, b, 1)
      sa == Accumulate(a)
      sb == Accumulate(b)
      saa == SumOverRows(LAMBDA x, y : Sq(x), a, b, 1)
      sbb == SumOverRows(LAMBDA x, y : Sq(y), a, b, 1)
      top == FSub(FMulInt(sab, nrow), FMul(sa, sb))
      bot == FSqrt(FMul(FSub(FMulInt(saa, nrow), Sq(sa)),
                        FSub(FMulInt(sbb, nrow), Sq(sb))))
  IN IF bot = 0 THEN 0 ELSE FDiv(top, bot)

\* the per-column ALLR of lines 434-450
col_allr(a, b, bkg1, bkg2, nsites1, nsites2) ==
  LET left == [j \in 1..Len(a) |->
                 FMul(FMul(b[j], nsites2), FLog(FDiv(a[j], bkg1[j])))]
      right == [j \in 1..Len(a) |->
                 FMul(FMul(a[j], nsites1), FLog(FDiv(b[j], bkg2[j])))]
  IN FDiv(FAdd(Accumulate(left), Accumulate(right)), FAdd(nsites1, nsites2))

col_allr_ll(a, b, bkg1, bkg2, nsites1, nsites2) ==
  LET v == col_allr(a, b, bkg1, bkg2, nsites1, nsites2)
  IN IF FLt(v, -2 * Scale) THEN -2 * Scale ELSE v

\* the common body of the compare_*() functions: the per-column values of
\* the comparable columns (0 elsewhere), aggregated
CompareWith(F(_, _), mot1, mot2, strat) ==
  LET good == GoodCols(mot1, mot2)
      ans == [i \in 1..Len(mot1) |-> IF good[i] THEN F(mot1[i], mot2[i]) ELSE 0]
  IN calc_final_score(ans, strat, CountTrue(good), good)

compare_hell(mot1, mot2, strat) == CompareWith(col_hell, mot1, mot2, strat)
compare_is(mot1, mot2, strat) == CompareWith(col_is, mot1, mot2, strat)
compare_seucl(mot1, mot2, strat) == CompareWith(col_seucl, mot1, mot2, strat)
compare_man(mot1, mot2, strat) == CompareWith(col_man, mot1, mot2, strat)
compare_bhat(mot1, mot2, strat) == CompareWith(col_bhat, mot1, mot2, strat)
compare_eucl(mot1, mot2, strat) == CompareWith(col_eucl, mot1, mot2, strat)
compare_pcc(mot1, mot2, strat) == CompareWith(col_pcc, mot1, mot2, strat)
compare_kl(mot1, mot2, strat) == CompareWith(col_kl, mot1, mot2, strat)
compare_sw(mot1, mot2, strat) == CompareWith(col_sw, mot1, mot2, strat)

compare_allr(mot1, mot2, bkg1, bkg2, nsites1, nsites2, strat) ==
  CompareWith(LAMBDA a, b : col_allr(a, b, bkg1, bkg2, nsites1, nsites2),
              mot1, mot2, strat)

compare_allr_ll(mot1, mot2, bkg1, bkg2, nsites1, nsites2, strat) ==
  CompareWith(LAMBDA a, b : col_allr_ll(a, b, bkg1, bkg2, nsites1, nsites2),
              mot1, mot2, strat)

(***************************************************************************)
(* Smoothing, padding, windows (lines 522-662)                             *)
(***************************************************************************)
\* a padding column of nrow entries of -1.0
PadCol(nrow) == [j \in 1..nrow |-> -Scale]

\* lines 522-529: 0.01 is added to every cell
klfix(mot) == [i \in 1..Len(mot) |-> [j \in 1..Len(mot[1]) |-> FAdd(mot[i][j], Scale \div 100)]]

\* a faulty variant of bkgfix: the constant is added whether or not an entry is 0
bkgfix_always(bkg) ==
  [i \in 1..Len(bkg) |-> FAdd(bkg[i], FDivInt(Scale \div 100, Len(bkg)))]

\* lines 531-545: 0.01 / size is added to every entry when some entry is 0
bkgfix(bkg) ==
  IF \E i \in 1..Len(bkg) : bkg[i] = 0
  THEN [i \in 1..Len(bkg) |-> FAdd(bkg[i], FDivInt(Scale \div 100, Len(bkg)))]
  ELSE bkg

\* std::size_t n = x for a double x >= 0: the fraction is dropped
ToSize(x) == x \div Scale

\* a faulty variant of PadBoth: the padding on the left end only
PadLeft(mot, width) ==
  [i \in 1..width |-> PadCol(Len(mot[1]))] \o mot

\* `width` padding columns, then mot, then `width` padding columns
PadBoth(mot, width) ==
  LET pad == [i \in 1..width |-> PadCol(Len(mot[1]))] IN pad \o mot \o pad
\* the IC array of a padded motif: 0.0 in the added columns
PadBothIC(ic, width) ==
  LET pad == [i \in 1..width |-> 0] IN pad \o ic \o pad

\* lines 547-601; the four arrays after the call
equalize_mot_cols(mot1, mot2, ic1, ic2, overlap) ==
  LET ncol1 == Len(mot1)
      ncol2 == Len(mot2)
      overlap1 == IF overlap < Scale THEN ToSize(overlap * ncol1) ELSE ToSize(overlap)
      overlap2 == IF overlap < Scale THEN ToSize(overlap * ncol2) ELSE ToSize(overlap)
      ncol1_toadd == IF overlap1 > ncol2 THEN 0 ELSE ncol2 - overlap1
      ncol2_toadd == IF overlap2 > ncol1 THEN 0 ELSE ncol1 - overlap2
      same == [mot1 |-> mot1, mot2 |-> mot2, ic1 |-> ic1, ic2 |-> ic2]
  IN IF ncol1_toadd = 0 \/ ncol2_toadd = 0 THEN same
     ELSE IF ncol2 > ncol1
          THEN [same EXCEPT !.mot1 = PadBoth(mot1, ncol1_toadd),
                            !.ic1 = PadBothIC(ic1, ncol1_toadd)]
          ELSE [same EXCEPT !.mot2 = PadBoth(mot2, ncol2_toadd),
                            !.ic2 = PadBothIC(ic2, ncol2_toadd)]

\* lines 603-612
get_alignlen(mot1, mot2) == CountTrue(GoodCols(mot1, mot2))

\* lines 614-628: the mean of the entries that are >= 0
calc_mic(tic) ==
  LET valid == [i \in 1..Len(tic) |-> FGe(tic[i], 0)]
  IN FDivInt(Accumulate(keep_good(tic, valid, 0)), CountTrue(valid))

Reverse(s) == [i \in 1..Len(s) |-> s[Len(s) + 1 - i]]

\* lines 630-640
get_motif_rc(mot) == Reverse([i \in 1..Len(mot) |-> Reverse(mot[i])])

\* lines 642-662; the four windows after the call
fix_lowic_pos(tmot1, tmot2, tic1, tic2, posic) ==
  [tmot1 |-> [i \in 1..Len(tmot1) |->
                IF FLt(tic1[i], posic) THEN PadCol(Len(tmot1[1])) ELSE tmot1[i]],
   tic1 |-> [i \in 1..Len(tmot1) |-> IF FLt(tic1[i], posic) THEN -Scale ELSE tic1[i]],
   tmot2 |-> [i \in 1..Len(tmot1) |->
                IF FLt(tic2[i], posic) THEN PadCol(Len(tmot1[1])) ELSE tmot2[i]],
   tic2 |-> [i \in 1..Len(tmot1) |-> IF FLt(tic2[i], posic) THEN -Scale ELSE tic2[i]]]

(***************************************************************************)
(* Alignment search (lines 664-808)                                        *)
(***************************************************************************)
\* score * double(tlen) / double(alignlen)
TimesTotalOverAligned(score, alignlen, tlen) ==
  IF score = Crash THEN Crash ELSE FDivInt(FMulInt(score, tlen), alignlen)
\* score * double(alignlen) / double(tlen)
TimesAlignedOverTotal(score, alignlen, tlen) ==
  IF score = Crash THEN Crash ELSE FDivInt(FMulInt(score, alignlen), tlen)

\* lines 664-723: the value stored in ans[i]; the slot keeps its initial 0.0
\* when the metric code has no case
get_compare_ans(tmot1, tmot2, lowic, norm, alignlen, tlen, method, nsites1, nsites2, bkg1, bkg2, strat) ==
  LET code == Lookup(METRICS_enum, method)
  IN CASE code = 1 -> IF lowic THEN DBL_MAX
                      ELSE TimesTotalOverAligned(compare_eucl(tmot1, tmot2, strat), alignlen, tlen)
       [] code = 2 -> IF lowic THEN DBL_MAX
                      ELSE TimesTotalOverAligned(compare_kl(tmot1, tmot2, strat), alignlen, tlen)
       [] code = 7 -> IF lowic THEN -DBL_MAX
                      ELSE TimesAlignedOverTotal(compare_pcc(tmot1, tmot2, strat), alignlen, tlen)
       [] code = 8 -> IF lowic THEN -DBL_MAX
                      ELSE TimesAlignedOverTotal(compare_sw(tmot1, tmot2, strat), alignlen, tlen)
       [] code = 9 -> IF lowic THEN -DBL_MAX
                      ELSE TimesAlignedOverTotal(
                             compare_allr(tmot1, tmot2, bkg1, bkg2, nsites1, nsites2, strat),
                             alignlen, tlen)
       [] code = 10 -> IF lowic THEN -DBL_MAX
                       ELSE TimesAlignedOverTotal(compare_bhat(tmot1, tmot2, strat), alignlen, tlen)
       [] code = 3 -> IF lowic THEN DBL_MAX
                      ELSE TimesAlignedOverTotal(compare_hell(tmot1, tmot2, strat), alignlen, tlen)
       [] code = 4 -> IF lowic THEN DBL_MAX
                      ELSE TimesAlignedOverTotal(compare_is(tmot1, tmot2, strat), alignlen, tlen)
       [] code = 5 -> IF lowic THEN DBL_MAX
                      ELSE TimesAlignedOverTotal(compare_seucl(tmot1, tmot2, strat), alignlen, tlen)
       [] code = 6 -> IF lowic THEN DBL_MAX
                      ELSE TimesAlignedOverTotal(compare_man(tmot1, tmot2, strat), alignlen, tlen)
       [] code = 11 -> IF lowic THEN -DBL_MAX
                       ELSE TimesAlignedOverTotal(
                              compare_allr_ll(tmot1, tmot2, bkg1, bkg2, nsites1, nsites2, strat),
                              alignlen, tlen)
       [] OTHER -> 0

\* std::min_element: the index of the first element no later one is < than
RECURSIVE MinElementFrom(_, _, _)
MinElementFrom(ans, best, i) ==
  IF i > Len(ans) THEN best
  ELSE MinElementFrom(ans, IF FLt(ans[i], ans[best]) THEN i ELSE best, i + 1)
min_element(ans) == MinElementFrom(ans, 1, 2)

\* std::max_element
RECURSIVE MaxElementFrom(_, _, _)
MaxElementFrom(ans, best, i) ==
  IF i > Len(ans) THEN best
  ELSE MaxElementFrom(ans, IF FLt(ans[best], ans[i]) THEN i ELSE best, i + 1)
max_element(ans) == MaxElementFrom(ans, 1, 2)

HasCrash(ans) == \E k \in 1..Len(ans) : ans[k] = Crash

\* -1111.0, the value returned for a metric code without a case
UnknownMetricScore == -1111 * Scale

\* a faulty variant of return_best_ans: the maximum for every metric
return_best_ans_max(ans, method) ==
  IF HasCrash(ans) THEN Crash ELSE ans[max_element(ans)]

\* lines 725-745
return_best_ans(ans, method) ==
  LET code == Lookup(METRICS_enum, method)
  IN IF HasCrash(ans) THEN Crash
     ELSE IF code \in 1..6 THEN ans[min_element(ans)]
     ELSE IF code \in 7..11 THEN ans[max_element(ans)]
     ELSE UnknownMetricScore

\* lines 858-878: the 0-based index of the best element
return_best_ans_which(ans, method) ==
  LET code == Lookup(METRICS_enum, method)
  IN IF code \in 1..6 THEN min_element(ans) - 1
     ELSE IF code \in 7..11 THEN max_element(ans) - 1
     ELSE -1

Window(s, start, w) == [k \in 1..w |-> s[k + start]]

\* lines 664-723: the aggregated score compare_<metric>() returns for the
\* windows, before get_compare_ans multiplies it
metric_score(tmot1, tmot2, method, nsites1, nsites2, bkg1, bkg2, strat) ==
  LET code == Lookup(METRICS_enum, method)
  IN CASE code = 1 -> compare_eucl(tmot1, tmot2, strat)
       [] code = 2 -> compare_kl(tmot1, tmot2, strat)
       [] code = 3 -> compare_hell(tmot1, tmot2, strat)
       [] code = 4 -> compare_is(tmot1, tmot2, strat)
       [] code = 5 -> compare_seucl(tmot1, tmot2, strat)
       [] code = 6 -> compare_man(tmot1, tmot2, strat)
       [] code = 7 -> compare_pcc(tmot1, tmot2, strat)
       [] code = 8 -> compare_sw(tmot1, tmot2, strat)
       [] code = 9 -> compare_allr(tmot1, tmot2, bkg1, bkg2, nsites1, nsites2, strat)
       [] code = 10 -> compare_bhat(tmot1, tmot2, strat)
       [] code = 11 -> compare_allr_ll(tmot1, tmot2, bkg1, bkg2, nsites1, nsites2, strat)
       [] OTHER -> 0

\* lines 788-796 (and 912-920): the low-information flag, the lengths, the
\* metric's aggregated score (0 when the metric is not called) and the score
\* of the windows f, given the two mean ICs
ScoredWindows(f, mic1, mic2, tlen, method, minic, norm, bkg1, bkg2, nsites1, nsites2, strat) ==
  [lowic |-> FLt(mic1, minic) \/ FLt(mic2, minic),
   ncomparable |-> get_alignlen(f.tmot1, f.tmot2),
   alignlen |-> IF norm THEN get_alignlen(f.tmot1, f.tmot2) ELSE tlen,
   tlen |-> tlen,
   agg |-> IF FLt(mic1, minic) \/ FLt(mic2, minic) THEN 0
           ELSE metric_score(f.tmot1, f.tmot2, method, nsites1, nsites2,
                             bkg1, bkg2, strat),
   score |-> get_compare_ans(f.tmot1, f.tmot2,
                             FLt(mic1, minic) \/ FLt(mic2, minic), norm,
                             IF norm THEN get_alignlen(f.tmot1, f.tmot2) ELSE tlen,
                             tlen, method, nsites1, nsites2, bkg1, bkg2, strat)]

\* lines 786-790 (and 910-914): the windows f after fix_lowic_pos
MaskedWindows(f, tlen, method, minic, norm, bkg1, bkg2, nsites1, nsites2, strat) ==
  ScoredWindows(f, calc_mic(f.tic1), calc_mic(f.tic2), tlen, method, minic, norm,
                bkg1, bkg2, nsites1, nsites2, strat)

\* lines 779-786 (and 903-910): the four windows w cut at one pair of offsets
CutWindows(w, tlen, method, minic, norm, posic, bkg1, bkg2, nsites1, nsites2, strat) ==
  MaskedWindows(IF FGt(posic, 0)
                THEN fix_lowic_pos(w.tmot1, w.tmot2, w.tic1, w.tic2, posic)
                ELSE w,
                tlen, method, minic, norm, bkg1, bkg2, nsites1, nsites2, strat)

\* lines 777-802 (and 901-926): the alignment of the windows that start at the
\* 0-based offsets i and j
Alignment(mot1, mot2, ic1, ic2, i, j, minw, tlen, method, minic, norm, posic, bkg1, bkg2, nsites1, nsites2, strat) ==
  CutWindows([tmot1 |-> Window(mot1, i, minw), tmot2 |-> Window(mot2, j, minw),
              tic1 |-> Window(ic1, i, minw), tic2 |-> Window(ic2, j, minw)],
             tlen, method, minic, norm, posic, bkg1, bkg2, nsites1, nsites2, strat)

\* lines 767-802 (and 891-926): the alignments of the equalized motifs e, in
\* the order the two loops enumerate them (outer loop over mot1's offset i,
\* inner loop over mot2's offset j); forj = 1 + mot2.size() - minw
EnumerateAlignments(e, minw, forj, count, tlen, method, minic, norm, posic, bkg1, bkg2, nsites1, nsites2, strat) ==
  [c \in 1..count |->
     Alignment(e.mot1, e.mot2, e.ic1, e.ic2, (c - 1) \div forj, (c - 1) % forj,
               minw, tlen, method, minic, norm, posic,
               bkg1, bkg2, nsites1, nsites2, strat)]

\* lines 764-771 (and 888-895): minw, fori and forj of the equalized motifs
EqualizedAlignments(e, tlen, method, minic, norm, posic, bkg1, bkg2, nsites1, nsites2, strat) ==
  EnumerateAlignments(e, Min2(Len(e.mot1), Len(e.mot2)),
                      1 + Len(e.mot2) - Min2(Len(e.mot1), Len(e.mot2)),
                      (1 + Len(e.mot1) - Min2(Len(e.mot1), Len(e.mot2)))
                        * (1 + Len(e.mot2) - Min2(Len(e.mot1), Len(e.mot2))),
                      tlen, method, minic, norm, posic,
                      bkg1, bkg2, nsites1, nsites2, strat)

\* lines 762-802 (and 887-926)
Alignments(m1, m2, c1, c2, method, moverlap, minic, norm, posic, bkg1, bkg2, nsites1, nsites2, strat) ==
  EqualizedAlignments(equalize_mot_cols(m1, m2, c1, c2, moverlap),
                      Max2(Len(m1), Len(m2)), method, minic, norm, posic,
                      bkg1, bkg2, nsites1, nsites2, strat)

ScoresOf(als) == [c \in 1..Len(als) |-> als[c].score]

\* the alignments of mot1 against the reverse complement of mot2
AlignmentsRC(m1, m2, c1, c2, method, moverlap, minic, norm, posic, bkg1, bkg2, nsites1, nsites2, strat) ==
  Alignments(m1, get_motif_rc(m2), c1, Reverse(c2), method, moverlap, minic, norm,
             posic, bkg1, bkg2, nsites1, nsites2, strat)

\* line 804: with RC the last slot of ans is the result of the nested call
WithRCSlot(RC, fwd, ans_rc) == IF RC THEN Append(fwd, ans_rc) ELSE fwd

\* lines 747-806: the vector ans before the selection
compare_motif_pair_ans(m1, m2, method, moverlap, RC, c1, c2, minic, norm, posic, bkg1, bkg2, nsites1, nsites2, strat) ==
  WithRCSlot(RC,
             ScoresOf(Alignments(m1, m2, c1, c2, method, moverlap, minic, norm,
                                 posic, bkg1, bkg2, nsites1, nsites2, strat)),
             return_best_ans(
               ScoresOf(AlignmentsRC(m1, m2, c1, c2, method, moverlap, minic, norm,
                                     posic, bkg1, bkg2, nsites1, nsites2, strat)),
               method))

\* lines 747-808
compare_motif_pair(m1, m2, method, moverlap, RC, c1, c2, minic, norm, posic, bkg1, bkg2, nsites1, nsites2, strat) ==
  return_best_ans(
    compare_motif_pair_ans(m1, m2, method, moverlap, RC, c1, c2, minic, norm, posic,
                           bkg1, bkg2, nsites1, nsites2, strat),
    method)

(***************************************************************************)
(* Information content (lines 810-830, 1051-1061)                          *)
(***************************************************************************)
internal_posIC(pos, bkg, type, relative) ==
  IF type = 2 THEN Accumulate(pos)
  ELSE IF relative
       THEN Accumulate(
              [i \in 1..Len(pos) |->
                 LET tmp == FDiv(pos[i], bkg[i])
                     v == FMul(pos[i], IF FGe(tmp, 0) THEN FLog2(tmp) ELSE 0)
                 IN IF FLt(v, 0) THEN 0 ELSE v])
       ELSE FSub(FLog2(Len(pos) * Scale),
                 Accumulate([i \in 1..Len(pos) |->
                               IF FGt(pos[i], 0)
                               THEN FMul(-pos[i], FLog2(pos[i]))
                               ELSE 0]))

calc_ic_motif(motif, bkg, relative) ==
  [i \in 1..Len(motif) |-> internal_posIC(motif[i], bkg, 1, relative)]

(***************************************************************************)
(* Merger (lines 832-1100)                                                 *)
(***************************************************************************)
IsPad(c) == FLt(c[1], 0)

\* lines 832-856: columns that are padding in both motifs are dropped
RECURSIVE MergedFrom(_, _, _, _)
MergedFrom(mot1, mot2, weight, i) ==
  IF i > Len(mot1) THEN <<>>
  ELSE (IF IsPad(mot1[i]) /\ IsData(mot2[i]) THEN <<mot2[i]>>
        ELSE IF IsPad(mot2[i]) /\ IsData(mot1[i]) THEN <<mot1[i]>>
        ELSE IF IsData(mot1[i]) /\ IsData(mot2[i])
             THEN <<[j \in 1..Len(mot1[1]) |->
                       FDivInt(FAdd(FMulInt(mot1[i][j], weight), mot2[i][j]), weight + 1)]>>
             ELSE <<>>)
       \o MergedFrom(mot1, mot2, weight, i + 1)
get_merged_motif(mot1, mot2, weight) == MergedFrom(mot1, mot2, weight, 1)

\* lines 928-929: the best score of ans and its 0-based index
BestOf(ans, method) ==
  [score |-> return_best_ans(ans, method),
   offset |-> return_best_ans_which(ans, method)]

\* lines 881-931
merge_motif_pair_subworker(m1, m2, method, minoverlap, c1, c2, norm, posic, minic, nsites1, nsites2, bkg1, bkg2, strat) ==
  BestOf(ScoresOf(Alignments(m1, m2, c1, c2, method, minoverlap, minic, norm,
                             posic, bkg1, bkg2, nsites1, nsites2, strat)),
         method)

\* the motif that stands for a call that wrote outside its output vector
CrashMotif == <<<<Crash>>>>

\* add_motif_columns writes out[add .. add + mot.size() - 1]
AddInBounds(mot, tlen, add) == add >= 0 /\ add + Len(mot) <= tlen

\* lines 933-946
add_motif_columns(mot, tlen, add) ==
  IF AddInBounds(mot, tlen, add)
  THEN [i \in 1..tlen |->
          IF i - 1 >= add /\ i - 1 < add + Len(mot) THEN mot[i - add]
          ELSE PadCol(Len(mot[1]))]
  ELSE CrashMotif

BothPad(m1, m2, i) == IsPad(m1[i + 1]) /\ IsPad(m2[i + 1])

\* lines 953-960: <<mlen, tleft>> after the first loop
RECURSIVE TrimLeftLoop(_, _, _, _, _)
TrimLeftLoop(m1, m2, i, mlen, tleft) ==
  IF i < mlen /\ BothPad(m1, m2, i)
  THEN TrimLeftLoop(m1, m2, i + 1, mlen - 1, tleft + 1)
  ELSE <<mlen, tleft>>

\* lines 962-968: mlen after the second loop
RECURSIVE TrimRightLoop(_, _, _, _)
TrimRightLoop(m1, m2, i, mlen) ==
  IF i >= 0 /\ BothPad(m1, m2, i)
  THEN TrimRightLoop(m1, m2, i - 1, mlen - 1)
  ELSE mlen

\* lines 948-983; the two motifs after the call
trim_both_motifs(m1, m2) ==
  LET l == TrimLeftLoop(m1, m2, 0, Len(m1), 0)
      tleft == l[2]
      mlen == TrimRightLoop(m1, m2, l[1] - 1, l[1])
  IN IF mlen > 0
     THEN [m1 |-> [i \in 1..mlen |-> m1[i + tleft]],
           m2 |-> [i \in 1..mlen |-> m2[i + tleft]]]
     ELSE [m1 |-> m1, m2 |-> m2]

\* lines 1015-1018 and 1091-1095: the reverse complement replaces the forward
\* orientation if (score_rc > score)
PickOrientation(RC, fwd, rc) ==
  IF RC
  THEN [score |-> fwd.score, score_rc |-> rc.score,
        use_rc |-> FGt(rc.score, fwd.score),
        offset |-> IF FGt(rc.score, fwd.score) THEN rc.offset ELSE fwd.offset,
        crash |-> fwd.score = Crash \/ rc.score = Crash]
  ELSE [score |-> fwd.score, score_rc |-> fwd.score, use_rc |-> FALSE,
        offset |-> fwd.offset, crash |-> fwd.score = Crash]

\* lines 1001-1019 and 1077-1096: the orientation and offset that are used
BestOrientation(m1, m2, method, minoverlap, RC, c1, c2, norm, posic, minic, nsites1, nsites2, bkg1, bkg2, strat) ==
  PickOrientation(RC,
    merge_motif_pair_subworker(m1, m2, method, minoverlap, c1, c2, norm,
                               posic, minic, nsites1, nsites2, bkg1, bkg2, strat),
    merge_motif_pair_subworker(m1, get_motif_rc(m2), method, minoverlap, c1,
                               Reverse(c2), norm, posic, minic, nsites1,
                               nsites2, bkg1, bkg2, strat))

\* lines 1063-1100
find_offsets(m1, m2, method, minoverlap, c1, c2, norm, posic, minic, RC, nsites1, nsites2, bkg1, bkg2, strat) ==
  BestOrientation(m1, m2, method, minoverlap, RC, c1, c2, norm, posic, minic,
                  nsites1, nsites2, bkg1, bkg2, strat)

\* a faulty variant of the shift: the quotient alone
ShiftOfQuotient(offset, size) == IF offset < 0 THEN -1 ELSE offset \div size

\* offset % size - offset / size, as the int handed to add_motif_columns; a
\* negative offset (no best index) gives a position outside the output
ShiftOf(offset, size) == IF offset < 0 THEN -1 ELSE (offset % size) - (offset \div size)

\* lines 1023-1029 (and 1344-1350): the equalized motifs e brought to one length
ShiftShorter(e, offset) ==
  IF Len(e.mot1) > Len(e.mot2)
  THEN [m1 |-> e.mot1,
        m2 |-> add_motif_columns(e.mot2, Len(e.mot1), ShiftOf(offset, Len(e.mot1)))]
  ELSE IF Len(e.mot2) > Len(e.mot1)
       THEN [m1 |-> add_motif_columns(e.mot1, Len(e.mot2), ShiftOf(offset, Len(e.mot2))),
             m2 |-> e.mot2]
       ELSE [m1 |-> e.mot1, m2 |-> e.mot2]

\* lines 1021-1029 (and 1342-1350)
AlignPair(m1, m2, c1, c2, minoverlap, offset) ==
  ShiftShorter(equalize_mot_cols(m1, m2, c1, c2, minoverlap), offset)

\* lines 1031-1032 (and 1352): trim the two aligned motifs a
TrimAligned(a) ==
  IF a.m1 = CrashMotif \/ a.m2 = CrashMotif
  THEN [m1 |-> CrashMotif, m2 |-> CrashMotif]
  ELSE trim_both_motifs(a.m1, a.m2)

\* line 1032: merge the trimmed motifs t
MergeTrimmed(t, weight) ==
  IF t.m1 = CrashMotif THEN CrashMotif ELSE get_merged_motif(t.m1, t.m2, weight)

\* lines 1016-1034: the locals score and offset (b) and the motif returned
MergeOriented(b, m1, m2, minoverlap, c1, c2, weight) ==
  [best |-> b,
   merged |-> IF b.crash THEN CrashMotif
              ELSE MergeTrimmed(
                     TrimAligned(AlignPair(m1, IF b.use_rc THEN get_motif_rc(m2) ELSE m2,
                                           c1, c2, minoverlap, b.offset)),
                     weight)]

\* lines 985-1036, with the locals of the call
merge_motif_pair_run(m1, m2, method, minoverlap, RC, c1, c2, weight, norm, posic, minic, nsites1, nsites2, bkg1, bkg2, strat) ==
  MergeOriented(BestOrientation(m1, m2, method, minoverlap, RC, c1, c2, norm, posic,
                                minic, nsites1, nsites2, bkg1, bkg2, strat),
                m1, m2, minoverlap, c1, c2, weight)

\* lines 985-1036
merge_motif_pair(m1, m2, method, minoverlap, RC, c1, c2, weight, norm, posic, minic, nsites1, nsites2, bkg1, bkg2, strat) ==
  merge_motif_pair_run(m1, m2, method, minoverlap, RC, c1, c2, weight, norm, posic,
                       minic, nsites1, nsites2, bkg1, bkg2, strat).merged

\* a faulty variant of merge_bkg_pair: the plain average, whatever the weight
merge_bkg_pair_unweighted(bkg1, bkg2, weight) ==
  [i \in 1..Len(bkg1) |-> FDivInt(FAdd(bkg1[i], bkg2[i]), 2)]

\* lines 1038-1049
merge_bkg_pair(bkg1, bkg2, weight) ==
  [i \in 1..Len(bkg1) |-> FDivInt(FAdd(FMulInt(bkg1[i], weight), bkg2[i]), weight + 1)]

\* lines 1102-1112
neg_one_to_zero(mot) ==
  [i \in 1..Len(mot) |-> [j \in 1..Len(mot[1]) |-> IF FLt(mot[i][j], 0) THEN 0 ELSE mot[i][j]]]

\* lines 1114-1124: the motif and the background after the call
fix_mot_bkg_zeros(mot, bkg, method) ==
  IF Lookup(METRICS_enum, method) \in {2, 4, 9, 11}
  THEN [mot |-> klfix(mot), bkg |-> bkgfix(bkg)]
  ELSE [mot |-> mot, bkg |-> bkg]

\* lines 1126-1138
RECURSIVE CountLeftFrom(_, _)
CountLeftFrom(m, i) ==
  IF i <= Len(m) /\ IsPad(m[i]) THEN 1 + CountLeftFrom(m, i + 1) ELSE 0
count_left_empty(m) == CountLeftFrom(m, 1)

(***************************************************************************)
(* One pairwise call: compare_motif_pair, merge_motif_pair, find_offsets   *)
(***************************************************************************)
\* columns over a two-letter alphabet
ColA == <<Scale, 0>>
ColH == <<(9 * Scale) \div 10, Scale \div 10>>
ColQ == <<(3 * Scale) \div 4, Scale \div 4>>
\* motifs: one column; a repeated column; two columns of low information
PairMotifs == {<<ColA>>, <<ColA, ColA>>, <<ColH, ColQ>>}
PairBkg == <<Scale \div 2, Scale \div 2>>
\* the number of sites of the first and of the second motif
PairNsites == <<10 * Scale, 20 * Scale>>
KnownMetrics == {"EUCL", "KL", "HELL", "IS", "SEUCL", "MAN",
                 "PCC", "SW", "ALLR", "BHAT", "ALLR_LL"}
KnownStrats == {"sum", "a.mean", "g.mean", "median"}
\* one column, two columns, half of the motif
Overlaps == {Scale, 2 * Scale, Scale \div 2}
\* <<minic, posic>>
Thresholds == {<<0, 0>>, <<(4 * Scale) \div 5, Scale \div 2>>, <<(4 * Scale) \div 5, 0>>}

NoValue == <<>>

\* pval_extractor is not called
PvalIdle ==
  /\ subject = <<>> /\ target = <<>> /\ distribution = <<>>
  /\ ncols = <<>> /\ scores = <<>> /\ pv_method = ""
  /\ pv_pc = "idle" /\ pv_i = 0 /\ n1 = 0 /\ n2 = 0 /\ row = -1 /\ ok = FALSE
  /\ pvals = <<>>

\* no pairwise call is made
PairIdle ==
  /\ p_pc = "idle"
  /\ p_mot1 = NoValue /\ p_mot2 = NoValue /\ p_bkg1 = NoValue /\ p_bkg2 = NoValue
  /\ p_method = "" /\ p_strat = "" /\ p_moverlap = 0
  /\ p_RC = FALSE /\ p_norm = FALSE /\ p_minic = 0 /\ p_posic = 0
  /\ p_als = NoValue /\ p_alsrc = NoValue /\ p_score = 0
  /\ p_best = NoValue /\ p_merged = NoValue

\* the motifs and backgrounds are the ones an entry point hands over: after
\* fix_mot_bkg_zeros (line 1177)
PairStart ==
  /\ p_pc = "input"
  /\ p_method \in KnownMetrics
  /\ p_strat \in KnownStrats
  /\ \E a \in PairMotifs, b \in PairMotifs :
       /\ p_mot1 = fix_mot_bkg_zeros(a, PairBkg, p_method).mot
       /\ p_mot2 = fix_mot_bkg_zeros(b, PairBkg, p_method).mot
  /\ p_bkg1 = fix_mot_bkg_zeros(<<ColA>>, PairBkg, p_method).bkg
  /\ p_bkg2 = p_bkg1
  /\ p_moverlap \in Overlaps
  /\ p_RC \in BOOLEAN
  /\ p_norm \in BOOLEAN
  /\ \E t \in Thresholds : p_minic = t[1] /\ p_posic = t[2]
  /\ p_als = NoValue /\ p_alsrc = NoValue /\ p_score = 0
  /\ p_best = NoValue /\ p_merged = NoValue

\* the IC arrays the entry points compute (lines 1180-1185)
PairIC1 == calc_ic_motif(p_mot1, p_bkg1, FALSE)
PairIC2 == calc_ic_motif(p_mot2, p_bkg2, FALSE)

\* compare_motif_pair (lines 747-808)
PairCompare ==
  /\ p_pc = "input"
  /\ p_pc' = "compared"
  /\ p_als' = Alignments(p_mot1, p_mot2, PairIC1, PairIC2, p_method, p_moverlap,
                         p_minic, p_norm, p_posic, p_bkg1, p_bkg2,
                         PairNsites[1], PairNsites[2], p_strat)
  /\ p_alsrc' = IF p_RC
                THEN AlignmentsRC(p_mot1, p_mot2, PairIC1, PairIC2, p_method,
                                  p_moverlap, p_minic, p_norm, p_posic, p_bkg1,
                                  p_bkg2, PairNsites[1], PairNsites[2], p_strat)
                ELSE <<>>
  /\ p_score' = return_best_ans(
                  IF p_RC
                  THEN Append(ScoresOf(p_als'), return_best_ans(ScoresOf(p_alsrc'), p_method))
                  ELSE ScoresOf(p_als'),
                  p_method)
  /\ UNCHANGED <<prInputs, p_best, p_merged, pvVars, enVars, mgVars, fnVars>>

\* merge_motif_pair at weight 1 (lines 985-1036)
PairMerge ==
  /\ p_pc = "input"
  /\ p_pc' = "merged"
  /\ \E r \in {merge_motif_pair_run(p_mot1, p_mot2, p_method, p_moverlap, p_RC,
                                    PairIC1, PairIC2, 1, p_norm, p_posic, p_minic,
                                    PairNsites[1], PairNsites[2], p_bkg1, p_bkg2,
                                    p_strat)} :
       /\ p_best' = r.best
       /\ p_merged' = r.merged
  /\ UNCHANGED <<prInputs, p_als, p_alsrc, p_score, pvVars, enVars, mgVars, fnVars>>

\* find_offsets (lines 1063-1100)
PairFindOffsets ==
  /\ p_pc = "input"
  /\ p_pc' = "offsets"
  /\ p_best' = find_offsets(p_mot1, p_mot2, p_method, p_moverlap, PairIC1, PairIC2,
                            p_norm, p_posic, p_minic, p_RC, PairNsites[1],
                            PairNsites[2], p_bkg1, p_bkg2, p_strat)
  /\ UNCHANGED <<prInputs, p_als, p_alsrc, p_score, p_merged, pvVars, enVars, mgVars, fnVars>>

(***************************************************************************)
(* Entry points (lines 1140-1462): arguments and conversions               *)
(***************************************************************************)
EntryPoints == {"compare_motifs_cpp", "compare_motifs_all_cpp",
                "view_motifs_prep", "merge_motifs_cpp"}
IsCompareEntry == e_fn \in {"compare_motifs_cpp", "compare_motifs_all_cpp"}

\* an R numeric matrix: nrow rows (alphabet symbols), stored column by column
RMatrix(nrow, data) == [nrow |-> nrow, data |-> data]

\* R_to_cpp_motif_num (utils-internal.h): one vector per matrix column
R_to_cpp_motif_num(mat) ==
  [i \in 1..(Len(mat.data) \div mat.nrow) |->
     [j \in 1..mat.nrow |-> mat.data[(i - 1) * mat.nrow + j]]]

\* cpp_to_R_motif (utils-internal.h): the columns back in one matrix
RECURSIVE ConcatFrom(_, _)
ConcatFrom(mot, i) == IF i > Len(mot) THEN <<>> ELSE mot[i] \o ConcatFrom(mot, i + 1)
cpp_to_R_motif(mot) == RMatrix(Len(mot[1]), ConcatFrom(mot, 1))

\* the collections hold at most MaxMots motifs
MaxMots == 2
SeqsUpTo(S, n) == UNION {[1..k -> S] : k \in 0..n}

MatA == RMatrix(2, <<Scale, 0>>)
MatAU == RMatrix(2, <<Scale, 0, Scale \div 2, Scale \div 2>>)
MatEmpty == RMatrix(2, <<>>)
EntryMotLists == SeqsUpTo({MatA, MatAU}, MaxMots) \cup {<<MatEmpty>>}
EntryBkgs == {<<Scale \div 2, Scale \div 2>>, <<Scale, 0>>}
\* "WPCC" and "w.mean" are not in the tables
EntryMethods == {"EUCL", "KL", "PCC", "ALLR", "ALLR_LL", "WPCC"}
EntryStrats == {"sum", "a.mean", "w.mean"}
EntryArgs ==
  {[type |-> 1, minic |-> 0, posic |-> 0], [type |-> 3, minic |-> 0, posic |-> 0],
   [type |-> 1, minic |-> -Scale, posic |-> 0], [type |-> 1, minic |-> 0, posic |-> -Scale]}
\* index1, index2 for n motifs: one pair, two pairs, lists of unequal length
IndexChoices(n) ==
  IF n = 0 THEN {<< <<>>, <<>> >>}
  ELSE {<< <<0>>, <<n - 1>> >>, << <<0, 0>>, <<0, n - 1>> >>, << <<0>>, <<0, n - 1>> >>}
\* the arguments that are the same in every call
EntryOverlap == Scale
EntryRC == TRUE
EntryNorm == FALSE
EntryRelative == FALSE
\* argument nsites, one entry per motif
EntryNsites == [i \in 1..(MaxMots + 1) |-> 10 * i * Scale]

EntryTasksIdle ==
  /\ e_i = 0 /\ e_vmots = <<>> /\ e_ic = <<>> /\ e_reads = {}
  /\ e_tables = [METRICS_enum |-> DOMAIN METRICS_enum,
                 SCORESTRAT_enum |-> DOMAIN SCORESTRAT_enum]
  /\ t_pc = <<>> /\ e_answers = <<>> /\ e_writers = {}
  /\ e_scores = <<>> /\ e_out = NoValue

\* no entry point is called
EntryIdle ==
  /\ e_fn = "" /\ e_pc = "idle" /\ e_mots = <<>> /\ e_bkg0 = <<>> /\ e_bkg = <<>>
  /\ e_index1 = <<>> /\ e_index2 = <<>> /\ e_method = "" /\ e_strat = ""
  /\ e_args = NoValue /\ e_nthreads = 0
  /\ EntryTasksIdle

\* merge_motifs_cpp is not followed fold by fold
MergeIdle == m_i = 0 /\ m_acc = NoValue /\ m_calls = <<>>

\* no helper is called on its own
FnIdle == u_fn = "" /\ u_pc = "idle" /\ u_in = NoValue /\ u_out = NoValue

EntryStart ==
  /\ e_fn \in EntryPoints
  /\ e_pc = "start"
  /\ e_mots \in EntryMotLists
  /\ e_bkg0 \in SeqsUpTo(EntryBkgs, MaxMots)
  /\ e_bkg = e_bkg0
  /\ \E ix \in (IF e_fn = "compare_motifs_cpp" THEN IndexChoices(Len(e_mots))
                ELSE {<< <<>>, <<>> >>}) :
       e_index1 = ix[1] /\ e_index2 = ix[2]
  /\ e_method \in EntryMethods
  /\ e_strat \in EntryStrats
  /\ e_args \in EntryArgs
  /\ e_nthreads \in {1, 2}
  /\ EntryTasksIdle

\* the Rcpp::stop of the argument checks (lines 1154-1167, 1211-1222,
\* 1289-1295, 1409-1415), "" when every check passes
ValidationError ==
  IF IsCompareEntry /\ e_args.type # 1 /\ e_args.type # 2 THEN "type must be 1 or 2"
  ELSE IF e_args.minic < 0 THEN "min.mean.ic must be positive"
  ELSE IF e_args.posic < 0 THEN "min.position.ic must be positive"
  ELSE IF Len(e_mots) = 0 THEN "empty motif list"
  ELSE IF IsCompareEntry /\ Len(e_bkg) = 0 THEN "empty bkg list"
  ELSE IF IsCompareEntry /\ Len(e_mots) # Len(e_bkg) THEN "different motif and bkg lengths"
  ELSE IF e_fn = "compare_motifs_cpp" /\ Len(e_index1) # Len(e_index2)
       THEN "lengths of indices do not match"
  ELSE ""

\* vmots(bkg.size()) in the compare entry points, vmots(mots.size()) in the others
NumMots == IF IsCompareEntry THEN Len(e_bkg0) ELSE Len(e_mots)

\* bkg[i] (0-based); a reference outside the vector has no value until read
BkgAt(i) == IF i < Len(e_bkg) THEN e_bkg[i + 1] ELSE NoValue

enWork == <<e_i, e_vmots, e_ic, e_reads, e_tables, t_pc, e_answers, e_writers,
            e_scores, e_bkg>>

\* the argument checks
EntryValidate ==
  /\ e_pc = "start"
  /\ IF ValidationError # ""
     THEN /\ e_pc' = "error"
          /\ e_out' = [error |-> ValidationError]
     ELSE /\ e_pc' = "convert"
          /\ e_out' = e_out
  /\ UNCHANGED <<enInputs, enWork, pvVars, prVars, mgVars, fnVars>>

(***************************************************************************)
(* Entry points: the serial conversion phase                               *)
(***************************************************************************)
SmoothedMetric == Lookup(METRICS_enum, e_method) \in {2, 4, 9, 11}

\* lines 1172-1178 (1229-1235, 1301-1308, 1420-1426): one pass of the loop.
\* mots(i) is read and converted; fix_mot_bkg_zeros looks the method up, which
\* inserts an unknown name into METRICS_enum, and for a smoothed metric reads
\* and writes bkg[i].  bkg[i] outside the vector is undefined behaviour: the
\* call crashes or uses whatever lies behind the vector.
EntryConvert ==
  /\ e_pc = "convert" /\ e_i < NumMots
  /\ LET vm == R_to_cpp_motif_num(e_mots[e_i + 1])
         outside == e_i >= Len(e_bkg)
     IN IF Len(vm) = 0
        THEN /\ e_pc' = "error"
             /\ e_out' = [error |-> "encountered an empty motif"]
             /\ e_reads' = e_reads \cup {<<"mots", e_i>>}
             /\ UNCHANGED <<e_i, e_vmots, e_tables, e_bkg>>
        ELSE IF SmoothedMetric /\ outside
        THEN \E g \in EntryBkgs \cup {NoValue} :
               /\ e_reads' = e_reads \cup {<<"mots", e_i>>, <<"bkg", e_i>>}
               /\ e_tables' = [e_tables EXCEPT !.METRICS_enum = @ \cup {e_method}]
               /\ IF g = NoValue
                  THEN /\ e_pc' = "crash"
                       /\ UNCHANGED <<e_i, e_vmots, e_bkg, e_out>>
                  ELSE /\ e_vmots' = Append(e_vmots, klfix(vm))
                       /\ e_bkg' = Append(e_bkg, bkgfix(g))
                       /\ e_i' = e_i + 1
                       /\ UNCHANGED <<e_pc, e_out>>
        ELSE /\ e_reads' = e_reads \cup
                  (IF SmoothedMetric THEN {<<"mots", e_i>>, <<"bkg", e_i>>}
                   ELSE {<<"mots", e_i>>})
             /\ e_tables' = [e_tables EXCEPT !.METRICS_enum = @ \cup {e_method}]
             /\ e_vmots' = Append(e_vmots, fix_mot_bkg_zeros(vm, BkgAt(e_i), e_method).mot)
             /\ e_bkg' = IF SmoothedMetric
                         THEN [e_bkg EXCEPT ![e_i + 1] =
                                 fix_mot_bkg_zeros(vm, BkgAt(e_i), e_method).bkg]
                         ELSE e_bkg
             /\ e_i' = e_i + 1
             /\ UNCHANGED <<e_pc, e_out>>
  /\ UNCHANGED <<enInputs, e_ic, t_pc, e_answers, e_writers, e_scores, pvVars, prVars, mgVars, fnVars>>

\* answers(index1.size()) in compare_motifs_cpp, answers(vmots.size()) in
\* compare_motifs_all_cpp: one task per element
NumTasks ==
  IF e_fn = "compare_motifs_cpp" THEN Len(e_index1)
  ELSE IF e_fn = "compare_motifs_all_cpp" THEN NumMots
  ELSE 0

\* lines 1180-1186 (1237-1243, 1310-1312, 1428-1433): the IC of every column;
\* type is 1 in view_motifs_prep and merge_motifs_cpp
EntryIC ==
  /\ e_pc = "convert" /\ e_i = NumMots
  /\ e_ic' = [i \in 1..NumMots |->
                [j \in 1..Len(e_vmots[i]) |->
                   internal_posIC(e_vmots[i][j], BkgAt(i - 1),
                                  IF IsCompareEntry THEN e_args.type ELSE 1,
                                  EntryRelative)]]
  /\ e_pc' = IF IsCompareEntry THEN "parallel" ELSE "serial"
  /\ t_pc' = [t \in 1..NumTasks |-> "wait"]
  /\ e_answers' = [t \in 1..NumTasks |-> NoValue]
  /\ UNCHANGED <<enInputs, e_i, e_vmots, e_reads, e_tables, e_writers, e_scores,
                 e_bkg, e_out, pvVars, prVars, mgVars, fnVars>>

(***************************************************************************)
(* Entry points: the parallel phase (lines 1187-1196, 1244-1255)           *)
(***************************************************************************)
\* lines 1191-1195: the score compare_motifs_cpp computes for the motifs a and
\* b (0-based); bkg[a] is passed for both backgrounds
compare_motifs_cpp_score(a, b) ==
  compare_motif_pair(e_vmots[a + 1], e_vmots[b + 1], e_method, EntryOverlap, EntryRC,
                     e_ic[a + 1], e_ic[b + 1], e_args.minic, EntryNorm, e_args.posic,
                     e_bkg[a + 1], e_bkg[a + 1], EntryNsites[a + 1], EntryNsites[b + 1],
                     e_strat)

\* line 1191-1195: the score task i of compare_motifs_cpp stores (i 0-based)
compare_motifs_cpp_task(i) ==
  compare_motifs_cpp_score(e_index1[i + 1], e_index2[i + 1])

\* lines 1251-1253: the score compare_motifs_all_cpp computes for (i, j)
compare_motifs_all_cpp_pair(i, j) ==
  compare_motif_pair(e_vmots[i + 1], e_vmots[j + 1], e_method, EntryOverlap, EntryRC,
                     e_ic[i + 1], e_ic[j + 1], e_args.minic, EntryNorm, e_args.posic,
                     e_bkg[i + 1], e_bkg[j + 1], EntryNsites[i + 1], EntryNsites[j + 1],
                     e_strat)

\* a faulty variant of the row of task i: j = 0..N-1, every ordered pair
compare_motifs_all_cpp_task_full(i) ==
  [k \in 1..NumMots |-> compare_motifs_all_cpp_pair(i, k - 1)]

\* lines 1249-1254: the row task i of compare_motifs_all_cpp fills, j = i..N-1
compare_motifs_all_cpp_task(i) ==
  [k \in 1..(NumMots - i) |-> compare_motifs_all_cpp_pair(i, i + k - 1)]

\* the motif index pairs task i compares
TaskPairs(i) ==
  IF e_fn = "compare_motifs_cpp" THEN {<<e_index1[i + 1], e_index2[i + 1]>>}
  ELSE {<<i, j>> : j \in i..(NumMots - 1)}

\* some alignment of als is not low-information
AnyScored(als) == \E c \in 1..Len(als) : ~als[c].lowic

\* calc_final_score (line 148) runs for an alignment of a known metric that is
\* not low-information; bb is the motif whose background is passed as bkg2
PairCallsFinalScoreAt(a, b, bb) ==
  /\ Lookup(METRICS_enum, e_method) # 0
  /\ \/ AnyScored(Alignments(e_vmots[a + 1], e_vmots[b + 1], e_ic[a + 1], e_ic[b + 1],
                             e_method, EntryOverlap, e_args.minic, EntryNorm,
                             e_args.posic, e_bkg[a + 1], e_bkg[bb + 1],
                             EntryNsites[a + 1], EntryNsites[b + 1], e_strat))
     \/ /\ EntryRC
        /\ AnyScored(AlignmentsRC(e_vmots[a + 1], e_vmots[b + 1], e_ic[a + 1],
                                  e_ic[b + 1], e_method, EntryOverlap, e_args.minic,
                                  EntryNorm, e_args.posic, e_bkg[a + 1],
                                  e_bkg[bb + 1], EntryNsites[a + 1],
                                  EntryNsites[b + 1], e_strat))

PairCallsFinalScore(a, b) ==
  PairCallsFinalScoreAt(a, b, IF e_fn = "compare_motifs_cpp" THEN a ELSE b)

Running == {t \in 1..NumTasks : t_pc[t] \in {"absent", "found"}}

StratTable == <<"SCORESTRAT_enum", 0>>
AnswerSlot(t) == <<"answers", t>>

\* a worker picks task t up; the task's first SCORESTRAT_enum[strat] finds
\* the key or finds it missing
TaskBegin(t) ==
  /\ e_pc = "parallel" /\ t_pc[t] = "wait"
  /\ Cardinality(Running) < e_nthreads
  /\ t_pc' = [t_pc EXCEPT ![t] =
                IF /\ e_strat \notin e_tables.SCORESTRAT_enum
                   /\ \E pr \in TaskPairs(t - 1) : PairCallsFinalScore(pr[1], pr[2])
                THEN "absent" ELSE "found"]
  /\ UNCHANGED <<enInputs, e_pc, e_i, e_vmots, e_ic, e_reads, e_tables, e_answers,
                 e_writers, e_scores, e_bkg, e_out, pvVars, prVars, mgVars, fnVars>>

\* operator[] inserts the missing key: a write to the shared table.  When
\* another task has written the table too, the data race is undefined
\* behaviour: the task goes on or the call crashes.
TaskInsert(t) ==
  /\ e_pc = "parallel" /\ t_pc[t] = "absent"
  /\ e_tables' = [e_tables EXCEPT !.SCORESTRAT_enum = @ \cup {e_strat}]
  /\ e_writers' = e_writers \cup {<<StratTable, t>>}
  /\ \E crash \in (IF \E w \in e_writers : w[1] = StratTable /\ w[2] # t
                   THEN BOOLEAN ELSE {FALSE}) :
       /\ e_pc' = IF crash THEN "crash" ELSE e_pc
       /\ t_pc' = [t_pc EXCEPT ![t] = IF crash THEN "absent" ELSE "found"]
  /\ UNCHANGED <<enInputs, e_i, e_vmots, e_ic, e_reads, e_answers, e_scores,
                 e_bkg, e_out, pvVars, prVars, mgVars, fnVars>>

\* the task computes its scores and writes its own slot of answers
TaskStore(t) ==
  /\ e_pc = "parallel" /\ t_pc[t] = "found"
  /\ e_answers' = [e_answers EXCEPT ![t] =
                     IF e_fn = "compare_motifs_cpp" THEN compare_motifs_cpp_task(t - 1)
                     ELSE compare_motifs_all_cpp_task(t - 1)]
  /\ e_writers' = e_writers \cup {<<AnswerSlot(t), t>>}
  /\ t_pc' = [t_pc EXCEPT ![t] = "done"]
  /\ UNCHANGED <<enInputs, e_pc, e_i, e_vmots, e_ic, e_reads, e_tables, e_scores,
                 e_bkg, e_out, pvVars, prVars, mgVars, fnVars>>

\* parallelFor returns when every task is done; answers is returned
EntryJoin ==
  /\ e_pc = "parallel"
  /\ \A t \in 1..NumTasks : t_pc[t] = "done"
  /\ e_pc' = "done"
  /\ e_out' = e_answers
  /\ UNCHANGED <<enInputs, enWork, pvVars, prVars, mgVars, fnVars>>

(***************************************************************************)
(* Entry points: view_motifs_prep (lines 1314-1397)                        *)
(***************************************************************************)
\* lines 1317-1329: the offset and orientation of motif i (1..N-1) against
\* motif 0
ViewFound(vm, ic, bk) ==
  [i \in 1..(Len(vm) - 1) |->
     find_offsets(vm[1], vm[i + 1], e_method, EntryOverlap, ic[1], ic[i + 1],
                  EntryNorm, e_args.posic, e_args.minic, EntryRC, EntryNsites[1],
                  EntryNsites[i + 1], bk[1], bk[i + 1], e_strat)]

\* lines 1331-1358: motif i, in its orientation, aligned with motif 0 and
\* trimmed; the padding on the left of motif 0 is what motif 0 has to get
ViewTrimmed(t) ==
  IF t.m1 = CrashMotif
  THEN [crash |-> TRUE, toadd |-> 0, ttmot |-> CrashMotif]
  ELSE [crash |-> FALSE, toadd |-> count_left_empty(t.m1), ttmot |-> t.m2]

ViewAligned(vm, ic, found) ==
  [i \in 1..(Len(vm) - 1) |->
     IF found[i].crash
     THEN [crash |-> TRUE, toadd |-> 0, ttmot |-> CrashMotif]
     ELSE ViewTrimmed(TrimAligned(
            AlignPair(vm[1],
                      IF found[i].use_rc THEN get_motif_rc(vm[i + 1]) ELSE vm[i + 1],
                      ic[1], ic[i + 1], EntryOverlap, found[i].offset)))]

\* std::max_element over toadd, a non-empty vector of ints
RECURSIVE MaxToadd(_, _)
MaxToadd(al, i) ==
  IF i > Len(al) THEN al[1].toadd ELSE Max2(al[i].toadd, MaxToadd(al, i + 1))

\* lines 1360-1396: the list that is returned, given maxadd
ViewOut(vm, found, al, maxadd) ==
  [motifs |->
     <<cpp_to_R_motif(neg_one_to_zero(
         IF maxadd > 0 THEN add_motif_columns(vm[1], Len(vm[1]) + maxadd, maxadd)
         ELSE vm[1]))>>
     \o [i \in 1..Len(al) |->
           cpp_to_R_motif(neg_one_to_zero(
             IF maxadd - al[i].toadd > 0
             THEN add_motif_columns(al[i].ttmot,
                                    Len(al[i].ttmot) + maxadd - al[i].toadd,
                                    maxadd - al[i].toadd)
             ELSE al[i].ttmot))],
   motIsRC |-> [i \in 1..Len(found) |-> found[i].use_rc]]

\* the values *std::max_element may give on an empty toadd (one motif): the
\* dereference of end() is undefined behaviour; -1 stands for a crash
GarbageMaxadd == {-1, 0, 1}

\* bkg as far as it exists, then what lies behind it
BkgBehind(g) ==
  [i \in 1..Max2(Len(e_bkg), Max2(NumMots, 2)) |->
     IF i <= Len(e_bkg) THEN e_bkg[i] ELSE g]

\* lines 1318-1360: the elements view_motifs_prep reads after the conversion,
\* al holding one entry per motif after the first.  find_offsets is handed
\* element 0 and element i of vmots, icscores and nsites for i = 1..N-1;
\* *std::max_element reads the element of toadd it points at, which for an
\* empty toadd is end(), the element 0 that does not exist.
ViewReads(al) ==
  {<<c, i>> : c \in {"vmots", "icscores", "nsites"},
              i \in (IF Len(al) = 0 THEN {} ELSE 0..Len(al))}
  \cup {<<"toadd", IF Len(al) = 0 THEN 0
                   ELSE CHOOSE k \in 0..(Len(al) - 1) : al[k + 1].toadd = MaxToadd(al, 1)>>}

\* view_motifs_prep after the conversion.  bkg[0] and bkg[i] are read by the
\* metrics that use a background (ALLR, ALLR_LL): these were read, and put
\* into e_bkg, by the conversion loop.
EntryView ==
  /\ e_pc = "serial" /\ e_fn = "view_motifs_prep"
  /\ \E found \in {ViewFound(e_vmots, e_ic, BkgBehind(NoValue))} :
       \E al \in {ViewAligned(e_vmots, e_ic, found)} :
         /\ e_scores' = [i \in 1..Len(found) |-> found[i].score]
         /\ e_reads' = e_reads \cup ViewReads(al)
         /\ \E g \in (IF Len(al) = 0 THEN GarbageMaxadd ELSE {MaxToadd(al, 1)}) :
              IF g < 0 \/ \E i \in 1..Len(al) : al[i].crash
              THEN /\ e_pc' = "crash"
                   /\ e_out' = e_out
              ELSE /\ e_pc' = "done"
                   /\ e_out' = ViewOut(e_vmots, found, al, g)
  /\ UNCHANGED <<enInputs, e_i, e_vmots, e_ic, e_tables, t_pc, e_answers,
                 e_writers, e_bkg, pvVars, prVars, mgVars, fnVars>>

(***************************************************************************)
(* Entry points: merge_motifs_cpp (lines 1435-1462)                        *)
(***************************************************************************)
\* merged, mergedbkg, mergedic, nnsites and weight after one merge_motif_pair
\* call r, with the scores the calls have computed so far
MergeStep(r, mergedbkg, nnsites, weight, sofar) ==
  [merged |-> r.merged,
   bkg |-> mergedbkg,
   ic |-> IF r.merged = CrashMotif THEN <<>>
          ELSE calc_ic_motif(r.merged, mergedbkg, EntryRelative),
   nnsites |-> nnsites,
   weight |-> weight,
   scores |-> Append(sofar, r.best.score)]

\* lines 1446-1455: the folds of motifs i..N (1-based) into the merged motif
RECURSIVE MergeFold(_, _, _, _, _)
MergeFold(acc, vm, ic, bk, i) ==
  IF i > Len(vm) \/ acc.merged = CrashMotif THEN acc
  ELSE MergeFold(
         MergeStep(merge_motif_pair_run(acc.merged, vm[i], e_method, EntryOverlap,
                                        EntryRC, acc.ic, ic[i], acc.weight + 1,
                                        EntryNorm, e_args.posic, e_args.minic,
                                        acc.nnsites, EntryNsites[i], acc.bkg, bk[i],
                                        e_strat),
                   merge_bkg_pair(acc.bkg, bk[i], acc.weight + 1),
                   FAdd(acc.nnsites, EntryNsites[i]), acc.weight + 1, acc.scores),
         vm, ic, bk, i + 1)

\* lines 1435-1462
MergeAll(vm, ic, bk) ==
  MergeFold(
    MergeStep(merge_motif_pair_run(vm[1], vm[2], e_method, EntryOverlap, EntryRC,
                                   ic[1], ic[2], 1, EntryNorm, e_args.posic,
                                   e_args.minic, EntryNsites[1], EntryNsites[2],
                                   bk[1], bk[2], e_strat),
              merge_bkg_pair(bk[1], bk[2], 1),
              FAdd(EntryNsites[1], EntryNsites[2]), 1, <<>>),
    vm, ic, bk, 3)

\* lines 1437-1451: the elements of vmots, icscores, nsites and bkg that the
\* merges of n motifs read; the first merge reads the elements 0 and 1
MergeReads(n) ==
  {<<c, i>> : c \in {"vmots", "icscores", "nsites", "bkg"}, i \in 0..(n - 1)}

\* what vmots[1] may hold when there is one motif: the read is outside vmots
GarbageMotifs == {<<ColA>>, <<ColQ, ColA>>}

\* merge_motifs_cpp after the conversion.  vmots[1], icscores[1] and the
\* entries of bkg that do not exist are read all the same: undefined
\* behaviour, a crash or a merge with what lies behind the vectors.
EntryMerge ==
  /\ e_pc = "serial" /\ e_fn = "merge_motifs_cpp"
  /\ \E crash \in (IF Len(e_vmots) < 2 \/ Len(e_bkg) < Max2(Len(e_vmots), 2)
                   THEN BOOLEAN ELSE {FALSE}),
        gm \in (IF Len(e_vmots) < 2 THEN GarbageMotifs ELSE {NoValue}),
        gb \in (IF Len(e_bkg) < Max2(Len(e_vmots), 2) THEN EntryBkgs ELSE {NoValue}) :
       \E r \in {MergeAll(IF Len(e_vmots) < 2 THEN Append(e_vmots, gm) ELSE e_vmots,
                          IF Len(e_vmots) < 2
                          THEN Append(e_ic, calc_ic_motif(gm, BkgBehind(gb)[2], EntryRelative))
                          ELSE e_ic,
                          BkgBehind(gb))} :
         /\ e_reads' = e_reads \cup MergeReads(Max2(Len(e_vmots), 2))
         /\ IF crash \/ r.merged = CrashMotif
            THEN /\ e_pc' = "crash"
                 /\ UNCHANGED <<e_scores, e_out>>
            ELSE /\ e_pc' = "done"
                 /\ e_scores' = r.scores
                 /\ e_out' = <<cpp_to_R_motif(r.merged), r.bkg>>
  /\ UNCHANGED <<enInputs, e_i, e_vmots, e_ic, e_tables, t_pc, e_answers,
                 e_writers, e_bkg, pvVars, prVars, mgVars, fnVars>>

NextEntry ==
  \/ EntryValidate
  \/ EntryConvert
  \/ EntryIC
  \/ \E t \in 1..NumTasks : TaskBegin(t)
  \/ \E t \in 1..NumTasks : TaskInsert(t)
  \/ \E t \in 1..NumTasks : TaskStore(t)
  \/ EntryJoin
  \/ EntryView
  \/ EntryMerge

InitEntry == EntryStart /\ PvalIdle /\ PairIdle /\ MergeIdle /\ FnIdle

SpecEntry == InitEntry /\ [][NextEntry]_vars

(***************************************************************************)
(* merge_motifs_cpp, one fold per step (lines 1435-1460)                   *)
(***************************************************************************)
\* the largest number of motifs merged
MaxFold == 3

\* two or more motifs, one background each
MergeStart ==
  /\ e_fn = "merge_motifs_cpp"
  /\ e_pc = "start"
  /\ e_mots \in UNION {[1..k -> {MatA, MatAU}] : k \in 2..MaxFold}
  /\ e_bkg0 \in [1..Len(e_mots) -> EntryBkgs]
  /\ e_bkg = e_bkg0
  /\ e_index1 = <<>> /\ e_index2 = <<>>
  /\ e_method \in {"EUCL", "KL", "ALLR"}
  /\ e_strat \in {"sum", "a.mean"}
  /\ e_args = [type |-> 1, minic |-> 0, posic |-> 0]
  /\ e_nthreads = 1
  /\ EntryTasksIdle

\* argument nsites of merge_motifs_cpp
MergeNsites == [i \in 1..MaxFold |-> 10 * i * Scale]

\* lines 1435-1442: the first pairwise merge, weight 1
MergeFirst ==
  /\ e_pc = "serial" /\ e_fn = "merge_motifs_cpp" /\ m_acc = NoValue
  /\ \E r \in {merge_motif_pair_run(e_vmots[1], e_vmots[2], e_method, EntryOverlap,
                                    EntryRC, e_ic[1], e_ic[2], 1, EntryNorm,
                                    e_args.posic, e_args.minic, MergeNsites[1],
                                    MergeNsites[2], e_bkg[1], e_bkg[2], e_strat)} :
       /\ m_acc' = MergeStep(r, merge_bkg_pair(e_bkg[1], e_bkg[2], 1),
                             FAdd(MergeNsites[1], MergeNsites[2]), 1, <<>>)
       /\ m_calls' = <<[weight |-> 1, bkgweight |-> 1, nsites1 |-> MergeNsites[1]]>>
       /\ m_i' = 2
       /\ e_pc' = IF r.merged = CrashMotif THEN "crash" ELSE "fold"
  /\ e_reads' = e_reads \cup {<<"bkg", 0>>, <<"bkg", 1>>}
  /\ UNCHANGED <<enInputs, e_i, e_vmots, e_ic, e_tables, t_pc, e_answers,
                 e_writers, e_bkg, e_scores, e_out, pvVars, prVars, fnVars>>

\* lines 1446-1453: one pass of the loop over the motifs from the third on
MergeNext ==
  /\ e_pc = "fold" /\ m_i < Len(e_vmots)
  /\ \E r \in {merge_motif_pair_run(m_acc.merged, e_vmots[m_i + 1], e_method,
                                    EntryOverlap, EntryRC, m_acc.ic, e_ic[m_i + 1],
                                    m_acc.weight + 1, EntryNorm, e_args.posic,
                                    e_args.minic, m_acc.nnsites, MergeNsites[m_i + 1],
                                    m_acc.bkg, e_bkg[m_i + 1], e_strat)} :
       /\ m_acc' = MergeStep(r, merge_bkg_pair(m_acc.bkg, e_bkg[m_i + 1], m_acc.weight + 1),
                             FAdd(m_acc.nnsites, MergeNsites[m_i + 1]),
                             m_acc.weight + 1, m_acc.scores)
       /\ m_calls' = Append(m_calls, [weight |-> m_acc.weight + 1,
                                      bkgweight |-> m_acc.weight + 1,
                                      nsites1 |-> m_acc.nnsites])
       /\ m_i' = m_i + 1
       /\ e_pc' = IF r.merged = CrashMotif THEN "crash" ELSE "fold"
  /\ e_reads' = e_reads \cup {<<"bkg", m_i>>}
  /\ UNCHANGED <<enInputs, e_i, e_vmots, e_ic, e_tables, t_pc, e_answers,
                 e_writers, e_bkg, e_scores, e_out, pvVars, prVars, fnVars>>

\* lines 1457-1460: the merged motif and background are returned
MergeReturn ==
  /\ e_pc = "fold" /\ m_i >= Len(e_vmots)
  /\ e_pc' = "done"
  /\ e_scores' = m_acc.scores
  /\ e_out' = <<cpp_to_R_motif(m_acc.merged), m_acc.bkg>>
  /\ UNCHANGED <<enInputs, e_i, e_vmots, e_ic, e_reads, e_tables, t_pc, e_answers,
                 e_writers, e_bkg, mgVars, pvVars, prVars, fnVars>>

NextMerge ==
  \/ EntryValidate
  \/ EntryConvert
  \/ EntryIC
  \/ MergeFirst
  \/ MergeNext
  \/ MergeReturn

InitMerge == MergeStart /\ PvalIdle /\ PairIdle /\ MergeIdle /\ FnIdle

SpecMerge == InitMerge /\ [][NextMerge]_vars

(***************************************************************************)
(* The helper functions called on their own                                *)
(***************************************************************************)
\* a column over four symbols
ColN == <<Scale, 0, 0, 0>>

\* arguments of fix_mot_bkg_zeros: a motif, a background over the same
\* alphabet and a method name ("WPCC" is not in METRICS_enum)
FixArgs ==
  {[mot |-> m, bkg |-> b, method |-> me] :
     m \in {<<ColA>>, <<ColH, ColQ>>, <<ColA, <<0, Scale>>>>},
     b \in {<<Scale \div 2, Scale \div 2>>, <<Scale, 0>>, <<0, Scale>>},
     me \in KnownMetrics \cup {"WPCC"}}
  \cup {[mot |-> <<ColN, ColN>>, bkg |-> b, method |-> me] :
     b \in {<<Scale \div 4, Scale \div 4, Scale \div 4, Scale \div 4>>,
            <<Scale \div 2, Scale \div 2, 0, 0>>},
     me \in KnownMetrics \cup {"WPCC"}}

\* lines 1114-1124: one call of fix_mot_bkg_zeros
FixCall ==
  /\ u_pc = "input" /\ u_fn = "fix_mot_bkg_zeros"
  /\ u_out' = fix_mot_bkg_zeros(u_in.mot, u_in.bkg, u_in.method)
  /\ u_pc' = "done"
  /\ UNCHANGED <<u_fn, u_in, pvVars, prVars, enVars, mgVars>>

\* the longest aligned motifs handed to trim_both_motifs
MaxTrimLen == 4

\* arguments of trim_both_motifs: two aligned motifs of one length, every
\* column of each either padding or data
TrimArgs ==
  UNION {{[m1 |-> a, m2 |-> b] : a \in [1..n -> {PadCol(2), ColA}],
                                 b \in [1..n -> {PadCol(2), ColQ}]} : n \in 1..MaxTrimLen}

\* lines 948-983: one call of trim_both_motifs
TrimCall ==
  /\ u_pc = "input" /\ u_fn = "trim_both_motifs"
  /\ u_out' = trim_both_motifs(u_in.m1, u_in.m2)
  /\ u_pc' = "done"
  /\ UNCHANGED <<u_fn, u_in, pvVars, prVars, enVars, mgVars>>

\* the widest motif handed to equalize_mot_cols
MaxEqWidth == 4

\* a motif of n columns, all different, and an IC array for it
EqMotif(n) == [i \in 1..n |-> <<Scale - 100 * i, 100 * i>>]
EqIC(n) == [i \in 1..n |-> 100 * i]

\* the minimum overlaps: fractions (0, 0.3, 0.5, 0.75) and column counts (1, 1.5, 2, 3)
EqOverlaps == {0, (3 * Scale) \div 10, Scale \div 2, (3 * Scale) \div 4,
               Scale, (3 * Scale) \div 2, 2 * Scale, 3 * Scale}

\* arguments of equalize_mot_cols
EqualizeArgs ==
  {[mot1 |-> EqMotif(a), mot2 |-> EqMotif(b), ic1 |-> EqIC(a), ic2 |-> EqIC(b),
    overlap |-> o] : a \in 1..MaxEqWidth, b \in 1..MaxEqWidth, o \in EqOverlaps}

\* lines 762-768 (and 887-891): equalize_mot_cols, then the numbers of start
\* offsets fori and forj of the two motifs
EqualizeCall ==
  /\ u_pc = "input" /\ u_fn = "equalize_mot_cols"
  /\ \E e \in {equalize_mot_cols(u_in.mot1, u_in.mot2, u_in.ic1, u_in.ic2, u_in.overlap)} :
       u_out' = [mot1 |-> e.mot1, mot2 |-> e.mot2, ic1 |-> e.ic1, ic2 |-> e.ic2,
                 fori |-> 1 + Len(e.mot1) - Min2(Len(e.mot1), Len(e.mot2)),
                 forj |-> 1 + Len(e.mot2) - Min2(Len(e.mot1), Len(e.mot2))]
  /\ u_pc' = "done"
  /\ UNCHANGED <<u_fn, u_in, pvVars, prVars, enVars, mgVars>>

\* arguments of compare_motif_pair: motifs of every width, every overlap,
\* with and without the reverse-complement search; no IC threshold
SearchArgs ==
  {[mot1 |-> EqMotif(a), mot2 |-> EqMotif(b), overlap |-> o, RC |-> rc] :
     a \in 1..MaxEqWidth, b \in 1..MaxEqWidth, o \in EqOverlaps, rc \in BOOLEAN}

\* the numbers of comparable columns of the alignments als
ComparableOf(als) == [c \in 1..Len(als) |-> als[c].ncomparable]

\* lines 747-808: the alignments compare_motif_pair enumerates for motifs of
\* widths up to MaxEqWidth ("EUCL", "sum", no normalisation, thresholds 0):
\* the comparable columns of each, forward and in the nested call
SearchCall ==
  /\ u_pc = "input" /\ u_fn = "compare_motif_pair"
  /\ u_out' =
       [fwd |-> ComparableOf(
                  Alignments(u_in.mot1, u_in.mot2,
                             calc_ic_motif(u_in.mot1, PairBkg, FALSE),
                             calc_ic_motif(u_in.mot2, PairBkg, FALSE),
                             "EUCL", u_in.overlap, 0, FALSE, 0, PairBkg, PairBkg,
                             PairNsites[1], PairNsites[2], "sum")),
        rc |-> IF u_in.RC
               THEN ComparableOf(
                      AlignmentsRC(u_in.mot1, u_in.mot2,
                                   calc_ic_motif(u_in.mot1, PairBkg, FALSE),
                                   calc_ic_motif(u_in.mot2, PairBkg, FALSE),
                                   "EUCL", u_in.overlap, 0, FALSE, 0, PairBkg, PairBkg,
                                   PairNsites[1], PairNsites[2], "sum"))
               ELSE <<>>]
  /\ u_pc' = "done"
  /\ UNCHANGED <<u_fn, u_in, pvVars, prVars, enVars, mgVars>>

\* the most per-column scores handed to calc_final_score
MaxScores == 3

\* arguments of calc_final_score: per-column scores 0, 0.5, 1 or 2 and the
\* flags of the comparable columns
FinalScoreArgs ==
  UNION {{[scores |-> sc, good |-> g] :
            sc \in [1..n -> {0, Scale \div 2, Scale, 2 * Scale}],
            g \in [1..n -> BOOLEAN]} : n \in 1..MaxScores}

\* lines 145-159: calc_final_score with the strategy "g.mean"; n is the number
\* of comparable columns, as every compare_*() counts it
FinalScoreCall ==
  /\ u_pc = "input" /\ u_fn = "calc_final_score"
  /\ u_out' = calc_final_score(u_in.scores, "g.mean", CountTrue(u_in.good), u_in.good)
  /\ u_pc' = "done"
  /\ UNCHANGED <<u_fn, u_in, pvVars, prVars, enVars, mgVars>>

\* the helper and its arguments
FnStart ==
  /\ u_fn \in {"fix_mot_bkg_zeros", "trim_both_motifs", "equalize_mot_cols",
               "compare_motif_pair", "calc_final_score"}
  /\ u_pc = "input"
  /\ u_in \in (IF u_fn = "fix_mot_bkg_zeros" THEN FixArgs
               ELSE IF u_fn = "trim_both_motifs" THEN TrimArgs
               ELSE IF u_fn = "equalize_mot_cols" THEN EqualizeArgs
               ELSE IF u_fn = "compare_motif_pair" THEN SearchArgs
               ELSE FinalScoreArgs)
  /\ u_out = NoValue

NextFn ==
  \/ FixCall
  \/ TrimCall
  \/ EqualizeCall
  \/ SearchCall
  \/ FinalScoreCall

InitFn == FnStart /\ PvalIdle /\ PairIdle /\ EntryIdle /\ MergeIdle

SpecFn == InitFn /\ [][NextFn]_vars

(***************************************************************************)
(* P-value lookup                                                          *)
(***************************************************************************)
\* widths of the table rows and of the motifs
MaxWidth == 3
\* rows of the table
MaxRows == 2

\* The distribution parameters of a row are fixed by the row's widths.
paramA(j) == 10 * subject[j] + target[j]
paramB(j) == 100 + 10 * subject[j] + target[j]

\* every row of one table uses the same family; "gamma" is not a known one
Families == {"normal", "logistic", "weibull", "gamma"}

\* pval_calculator (lines 77-90): the CDFs are R's; the result is kept as
\* the call that is made.  An unknown family stops with an error.
pval_calculator(score, pA, pB, ltail, dist) ==
  CASE Lookup(STRATS_enum, dist) = 1 ->
         [fn |-> "pnorm", score |-> score, a |-> pA, b |-> pB, ltail |-> ltail]
    [] Lookup(STRATS_enum, dist) = 2 ->
         [fn |-> "plogis", score |-> score, a |-> pA, b |-> pB, ltail |-> ltail]
    [] Lookup(STRATS_enum, dist) = 3 ->
         [fn |-> "pweibull", score |-> score, a |-> pA, b |-> pB, ltail |-> ltail]
    [] OTHER -> [fn |-> "stop"]

\* the initial 0.0 of pvals (line 1532)
PZero == [fn |-> "zero"]

\* lines 1523-1530
Ltail(method) == IF Lookup(METRICS_enum, method) \in {7, 8, 9, 10, 11} THEN 0 ELSE 1

\* the motif index pairs of the scores (1-based)
indices1 == <<1, 2>>
indices2 == <<2, 2>>

\* lines 1552-1566: the clamped (min width, max width) of score i
ClampLow(v, col) ==
  IF v < col[1] THEN col[1]
  ELSE IF v > col[Len(col)] THEN col[Len(col)]
  ELSE v
ClampedN1(i) == ClampLow(Min2(ncols[indices1[i]], ncols[indices2[i]]), subject)
ClampedN2(i) == ClampLow(Max2(ncols[indices1[i]], ncols[indices2[i]]), target)

\* a faulty variant of the test of line 1547: without the abs
IsSentinelNoAbs(s) == s = DBL_MAX

\* line 1547: abs(scores[i]) == max double
IsSentinel(s) == Abs(s) = DBL_MAX

\* lines 1570-1576: the first row with the exact widths, 0 when there is none
FindRow(a, b) ==
  LET hits == {j \in 1..Len(subject) : a = subject[j] /\ b = target[j]}
  IN IF hits = {} THEN 0 ELSE CHOOSE j \in hits : \A k \in hits : j <= k

WidthPairs == {p \in (1..MaxWidth) \X (1..MaxWidth) : p[1] <= p[2]}
PairLess(p, q) == p[1] < q[1] \/ (p[1] = q[1] /\ p[2] < q[2])
\* the width-sorted tables: rows ascending by (subject, target)
Tables ==
  {t \in UNION {[1..k -> WidthPairs] : k \in 1..MaxRows} :
     \A j \in 1..(Len(t) - 1) : PairLess(t[j], t[j + 1])}

ScoreVals == {Scale \div 2, DBL_MAX, -DBL_MAX}

InitPval ==
  /\ \E t \in Tables :
       /\ subject = [j \in 1..Len(t) |-> t[j][1]]
       /\ target = [j \in 1..Len(t) |-> t[j][2]]
       /\ \E f \in Families : distribution = [j \in 1..Len(t) |-> f]
  /\ ncols \in [1..2 -> 1..(MaxWidth + 1)]
  /\ scores \in [1..2 -> ScoreVals]
  /\ pv_method \in {"EUCL", "PCC"}
  /\ pv_pc = "for"
  /\ pv_i = 1
  /\ n1 = 0 /\ n2 = 0
  /\ row = -1            \* uninitialised in the code; written before it is read
  /\ ok = FALSE
  /\ pvals = [i \in 1..2 |-> PZero]
  /\ PairIdle
  /\ EntryIdle
  /\ MergeIdle
  /\ FnIdle

pvInputs == <<subject, target, distribution, ncols, scores, pv_method>>

\* line 1536: the for loop ends
PvalReturn ==
  /\ pv_pc = "for" /\ pv_i > Len(scores)
  /\ pv_pc' = "done"
  /\ UNCHANGED <<pvInputs, pv_i, n1, n2, row, ok, pvals, prVars, enVars, mgVars, fnVars>>

\* lines 1547-1548: a sentinel score is skipped
PvalSkipSentinel ==
  /\ pv_pc = "for" /\ pv_i <= Len(scores)
  /\ IsSentinel(scores[pv_i])
  /\ pv_i' = pv_i + 1
  /\ UNCHANGED <<pvInputs, pv_pc, n1, n2, row, ok, pvals, prVars, enVars, mgVars, fnVars>>

\* lines 1550-1566: the widths are clamped into the table's range
PvalClamp ==
  /\ pv_pc = "for" /\ pv_i <= Len(scores)
  /\ ~IsSentinel(scores[pv_i])
  /\ ok' = FALSE
  /\ n1' = ClampedN1(pv_i)
  /\ n2' = ClampedN2(pv_i)
  /\ pv_pc' = "while"
  /\ UNCHANGED <<pvInputs, pv_i, row, pvals, prVars, enVars, mgVars, fnVars>>

\* lines 1568-1585: one pass of the body of while (!ok)
PvalWhileBody ==
  /\ pv_pc = "while" /\ ~ok
  /\ LET j == FindRow(n1, n2)
     IN \E a \in IntInc(n1), b \in IntInc(n2) :
          IF a = TRAP \/ b = TRAP
          THEN /\ pv_pc' = "trap"
               /\ UNCHANGED <<n1, n2, row, ok>>
          ELSE /\ n1' = a /\ n2' = b
               /\ ok' = (j # 0)
               /\ row' = IF a > subject[Len(subject)] \/ b > target[Len(target)]
                         THEN -1
                         ELSE IF j # 0 THEN j - 1 ELSE row
               /\ pv_pc' = "while"
  /\ UNCHANGED <<pvInputs, pv_i, pvals, prVars, enVars, mgVars, fnVars>>

\* lines 1568, 1587-1592: the loop is left, the row is used or skipped
PvalAfterWhile ==
  /\ pv_pc = "while" /\ ok
  /\ IF row = -1
     THEN /\ pvals' = pvals
          /\ pv_pc' = "for"
     ELSE LET p == pval_calculator(scores[pv_i], paramA(row + 1), paramB(row + 1),
                                   Ltail(pv_method), distribution[row + 1])
          IN IF p.fn = "stop"
             THEN /\ pvals' = pvals
                  /\ pv_pc' = "error"
             ELSE /\ pvals' = [pvals EXCEPT ![pv_i] = p]
                  /\ pv_pc' = "for"
  /\ pv_i' = pv_i + 1
  /\ UNCHANGED <<pvInputs, n1, n2, row, ok, prVars, enVars, mgVars, fnVars>>

NextPval ==
  \/ PvalReturn
  \/ PvalSkipSentinel
  \/ PvalClamp
  \/ PvalWhileBody
  \/ PvalAfterWhile

SpecPval == InitPval /\ [][NextPval]_vars

\* pval_extractor is one sequential loop: a step that can be taken is taken
FairSpecPval == SpecPval /\ WF_vars(NextPval)

NextPair ==
  \/ PairCompare
  \/ PairMerge
  \/ PairFindOffsets

InitPair == PairStart /\ PvalIdle /\ EntryIdle /\ MergeIdle /\ FnIdle

SpecPair == InitPair /\ [][NextPair]_vars

(***************************************************************************)
(* Claims about pval_extractor                                             *)
(***************************************************************************)
\* C1: for every non-sentinel score and every width-sorted table the row
\* search loop (while (!ok)) terminates: whenever the loop is entered it is
\* eventually left, with a row found or given up.
C1_RowSearchTerminates == (pv_pc = "while") ~> (pv_pc # "while")

\* score i has been processed by the for loop without an error
Processed(i) == i < pv_i /\ pv_pc \in {"for", "while", "done"}

\* C2: every processed non-sentinel score whose clamped (min width, max
\* width) pair has an exact row in the table (of a known family) has the
\* p-value computed from that row's family and two parameters, also when
\* the row's subject or target width is the table's maximum.
C2_ExactRowGivesPvalue ==
  \A i \in 1..Len(scores) :
    LET j == FindRow(ClampedN1(i), ClampedN2(i))
    IN (/\ Processed(i)
        /\ ~IsSentinel(scores[i])
        /\ j # 0
        /\ Lookup(STRATS_enum, distribution[j]) # 0)
       => pvals[i] = pval_calculator(scores[i], paramA(j), paramB(j),
                                     Ltail(pv_method), distribution[j])

(***************************************************************************)
(* Claims about one pairwise call                                          *)
(***************************************************************************)
IsDistance(method) == Lookup(METRICS_enum, method) \in 1..6
IsSimilarity(method) == Lookup(METRICS_enum, method) \in 7..11

\* the alignments compare_motif_pair enumerated, forward and nested RC call
EnumeratedAlignments ==
  {p_als[c] : c \in 1..Len(p_als)} \cup {p_alsrc[c] : c \in 1..Len(p_alsrc)}

\* C7: the score of every scored alignment with a comparable column is the
\* metric's aggregated score times (total length / aligned length) for the
\* six distance metrics and times (aligned length / total length) for the
\* five similarity metrics, where the aligned length is the number of
\* comparable columns when normalisation is requested and the total length
\* otherwise (factor 1).
C7_NormalizationFactor ==
  p_pc = "compared" =>
    \A a \in EnumeratedAlignments :
      (~a.lowic /\ a.ncomparable > 0) =>
        /\ a.alignlen = (IF p_norm THEN a.ncomparable ELSE a.tlen)
        /\ IsDistance(p_method) =>
             a.score = TimesTotalOverAligned(a.agg, a.alignlen, a.tlen)
        /\ IsSimilarity(p_method) =>
             a.score = TimesAlignedOverTotal(a.agg, a.alignlen, a.tlen)

\* C8: with reverse-complement search, merge_motif_pair and find_offsets use
\* the reverse complement of the second motif exactly when its best score is
\* strictly better than the forward best score in the metric's direction:
\* lower for a distance metric, higher for a similarity metric.
C8_BestOrientationUsed ==
  (p_pc \in {"merged", "offsets"} /\ p_RC /\ ~p_best.crash) =>
    /\ IsDistance(p_method) => (p_best.use_rc <=> FLt(p_best.score_rc, p_best.score))
    /\ IsSimilarity(p_method) => (p_best.use_rc <=> FGt(p_best.score_rc, p_best.score))

\* the minimum overlap in columns, as merge_motif_pair and equalize_mot_cols
\* compute it for a motif of ncol columns
OverlapColumns(overlap, ncol) ==
  IF overlap < Scale THEN ToSize(overlap * ncol) ELSE ToSize(overlap)

\* C9: merging a motif with an identical copy at weight 1, without reverse
\* complement and with both IC thresholds 0, returns a motif of the same
\* width and the same column values, whether or not the motif's columns
\* repeat; stated for the distance metrics (identical columns are at distance
\* exactly 0) and a minimum overlap of at least one column.
C9_MergeIdempotent ==
  (/\ p_pc = "merged" /\ p_mot1 = p_mot2 /\ ~p_RC
   /\ p_minic = 0 /\ p_posic = 0
   /\ IsDistance(p_method)
   /\ OverlapColumns(p_moverlap, Len(p_mot1)) >= 1) =>
    p_merged = p_mot1

\* C10: while some enumerated alignment is not low-information, the score
\* compare_motif_pair returns is the score of an alignment that is not
\* low-information.
C10_SentinelNeverSelected ==
  (p_pc = "compared" /\ p_score # Crash /\ \E a \in EnumeratedAlignments : ~a.lowic) =>
    \E a \in EnumeratedAlignments : ~a.lowic /\ a.score = p_score

(***************************************************************************)
(* Claims about the entry points                                           *)
(***************************************************************************)
\* a score has been produced: a task stored its answer, or the serial entry
\* points computed the score of a pair
ScoreProduced ==
  \/ \E t \in 1..Len(t_pc) : t_pc[t] = "done"
  \/ e_scores # <<>>

\* the collections of a call are well formed: one background per motif, and
\* at least the two motifs view_motifs_prep and merge_motifs_cpp start from
WellFormedCall ==
  /\ Len(e_mots) = Len(e_bkg0)
  /\ Len(e_mots) >= (IF IsCompareEntry THEN 1 ELSE 2)

\* C3: no score is ever produced for a metric name outside the eleven known
\* metrics or a strategy name outside sum, a.mean, g.mean, median: the four
\* entry points reject the name before any pairwise comparison (here for
\* calls whose collections are well formed).
C3_UnknownNameRejected ==
  (/\ e_fn \in EntryPoints
   /\ WellFormedCall
   /\ (e_method \notin KnownMetrics \/ e_strat \notin KnownStrats)) =>
    ~ScoreProduced

\* C4: when the motif collection is empty or differs in length from the
\* background collection, no entry point reads a motif or a background
\* element, and none returns a result.
C4_CollectionsChecked ==
  (e_fn \in EntryPoints /\ (Len(e_mots) = 0 \/ Len(e_mots) # Len(e_bkg0))) =>
    /\ e_reads = {}
    /\ e_pc # "done"

\* C5: in the parallel phase no location is written by more than one task,
\* under every interleaving and for every method and strategy string.
C5_NoSharedWrites ==
  \A w1 \in e_writers : \A w2 \in e_writers : w1[1] = w2[1] => w1[2] = w2[2]

\* C6: compare_motifs_cpp returns, at the position of every index pair
\* (a, b) with a <= b, the score compare_motifs_all_cpp computes for (a, b).
C6_IndexPairsMatchAllPairs ==
  (e_fn = "compare_motifs_cpp" /\ e_pc = "done") =>
    \A k \in 1..Len(e_index1) :
      e_index1[k] <= e_index2[k] =>
        e_out[k] = compare_motifs_all_cpp_pair(e_index1[k], e_index2[k])

\* the metrics whose column formula is symmetric in its two operands: all
\* but Itakura-Saito (line 207)
SymmetricMetrics == KnownMetrics \ {"IS"}

\* every motif of the call has the same background
SharedBackground == \A i \in 1..Len(e_bkg0) : e_bkg0[i] = e_bkg0[1]

\* C11: for a symmetric metric, compare_motifs_cpp gives for every index
\* pair (a, b) the best score it gives for (b, a) with the same settings
\* (here for motifs that share one background, with reverse-complement
\* search).
C11_CompareSymmetric ==
  (/\ e_fn = "compare_motifs_cpp" /\ e_pc = "done"
   /\ e_method \in SymmetricMetrics /\ e_strat \in KnownStrats
   /\ SharedBackground) =>
    \A k \in 1..Len(e_index1) :
      e_out[k] = compare_motifs_cpp_score(e_index2[k], e_index1[k])

(***************************************************************************)
(* Further claims about one pairwise call                                  *)
(***************************************************************************)
\* the two motifs of the call are identical and are compared without
\* reverse complement, with both IC thresholds 0 and a minimum overlap of at
\* least one column
SelfCompare ==
  /\ p_mot1 = p_mot2 /\ ~p_RC /\ p_minic = 0 /\ p_posic = 0
  /\ OverlapColumns(p_moverlap, Len(p_mot1)) >= 1

\* C12: a motif compared with an identical copy under EUCL, SEUCL or MAN
\* with strategy sum, no reverse complement, IC thresholds 0 and a minimum
\* overlap of at least one column has best score 0, with or without
\* normalisation.
C12_SelfCompareZero ==
  (/\ p_pc = "compared" /\ SelfCompare
   /\ p_method \in {"EUCL", "SEUCL", "MAN"} /\ p_strat = "sum") =>
    p_score = 0

\* C12 happens: a two-column motif is compared with itself under
\* normalisation, a partial-overlap offset scores above 0, and 0 is returned
C12_Witness ==
  /\ p_pc = "compared" /\ SelfCompare /\ p_norm
  /\ p_method \in {"EUCL", "SEUCL", "MAN"} /\ p_strat = "sum"
  /\ \E a \in EnumeratedAlignments : a.ncomparable < a.tlen /\ a.score > 0
  /\ p_score = 0

(***************************************************************************)
(* Further claims about pval_extractor                                     *)
(***************************************************************************)
\* +max double and -max double
SentinelScores == {DBL_MAX, -DBL_MAX}

\* C13: a score equal to +max double or -max double always has p-value 0,
\* and the row search is never entered for it, whatever the table holds and
\* whatever happened to the scores before it.
C13_SentinelSkipped ==
  /\ \A i \in 1..Len(scores) : scores[i] \in SentinelScores => pvals[i] = PZero
  /\ pv_pc = "while" => scores[pv_i] \notin SentinelScores

\* C13 happens: the second score is -max double, the first score got a
\* p-value from a table row, and the second has been passed with p-value 0
C13_Witness ==
  /\ Len(scores) = 2 /\ pv_i > 2
  /\ scores[2] = -DBL_MAX
  /\ pvals[1] # PZero
  /\ pvals[2] = PZero

(***************************************************************************)
(* Further claims about one pairwise call                                  *)
(***************************************************************************)
\* the four windows of the c-th forward alignment of the call, cut from the
\* equalized motifs e, before fix_lowic_pos
WindowsAt(e, c) ==
  LET minw == Min2(Len(e.mot1), Len(e.mot2))
      forj == 1 + Len(e.mot2) - minw
  IN [tmot1 |-> Window(e.mot1, (c - 1) \div forj, minw),
      tic1 |-> Window(e.ic1, (c - 1) \div forj, minw),
      tmot2 |-> Window(e.mot2, (c - 1) % forj, minw),
      tic2 |-> Window(e.ic2, (c - 1) % forj, minw)]

\* the mean of the IC over the columns of a window that hold data (and, when a
\* position threshold is set, reach it)
DataMeanIC(tmot, tic, posic) ==
  LET keep == [k \in 1..Len(tic) |->
                 IsData(tmot[k]) /\ (FGt(posic, 0) => FGe(tic[k], posic))]
  IN FDivInt(Accumulate(keep_good(tic, keep, 0)), CountTrue(keep))

\* a window with at least one column of data
HasData(tmot) == \E k \in 1..Len(tmot) : IsData(tmot[k])

\* C17: the mean IC of a window that is compared with the minimum mean IC is
\* the mean over the window's data columns: the padding columns of
\* equalize_mot_cols count neither in the sum nor in the number of columns,
\* with and without a position threshold (stated for the windows that hold
\* data of both motifs, where the mean is defined).
C17_MeanICOverData ==
  (p_pc = "compared") =>
    \A c \in 1..Len(p_als) :
      \E w \in {WindowsAt(equalize_mot_cols(p_mot1, p_mot2, PairIC1, PairIC2, p_moverlap), c)} :
        (HasData(w.tmot1) /\ HasData(w.tmot2)) =>
          p_als[c].lowic = (\/ FLt(DataMeanIC(w.tmot1, w.tic1, p_posic), p_minic)
                            \/ FLt(DataMeanIC(w.tmot2, w.tic2, p_posic), p_minic))

\* merge_motif_pair line 1021: the two motifs, the second in the orientation
\* that is used, after equalize_mot_cols
MergeEqualized ==
  equalize_mot_cols(p_mot1, IF p_best.use_rc THEN get_motif_rc(p_mot2) ELSE p_mot2,
                    PairIC1, PairIC2, p_moverlap)

\* the start, inside the longer motif of e, of the windows with the flattened
\* index offset (index = i * forj + j in the loops of the search)
WindowStart(e, offset) ==
  IF Len(e.mot1) > Len(e.mot2)
  THEN offset \div (1 + Len(e.mot2) - Min2(Len(e.mot1), Len(e.mot2)))
  ELSE offset % (1 + Len(e.mot2) - Min2(Len(e.mot1), Len(e.mot2)))

\* mot, of the shorter width, placed at column start of tlen columns of padding
PlacedAt(mot, tlen, start) ==
  [k \in 1..tlen |-> IF k - start \in 1..Len(mot) THEN mot[k - start]
                     ELSE PadCol(Len(mot[1]))]

\* the shorter motif of e as ShiftShorter leaves it for the index offset
ShiftedShorter(e, offset) ==
  IF Len(e.mot1) > Len(e.mot2) THEN ShiftShorter(e, offset).m2
  ELSE ShiftShorter(e, offset).m1

C23_ScoredHasComparable ==
  (p_pc = "compared") =>
    \A a \in EnumeratedAlignments : ~a.lowic => a.ncomparable >= 1

(***************************************************************************)
(* Further claims about the entry points                                   *)
(***************************************************************************)
\* C14: compare_motifs_all_cpp over N motifs returns N rows; row i (0-based)
\* has exactly N - i scores and its entry k is the comparison of motif i
\* with motif i + k, so every unordered pair, self-pairs included, appears
\* exactly once (N(N+1)/2 scores) and no ordered duplicate appears.
C14_UpperTriangle ==
  (e_fn = "compare_motifs_all_cpp" /\ e_pc = "done") =>
    /\ Len(e_out) = Len(e_mots)
    /\ \A i \in 0..(Len(e_mots) - 1) :
         /\ Len(e_out[i + 1]) = Len(e_mots) - i
         /\ \A k \in 0..(Len(e_mots) - i - 1) :
              e_out[i + 1][k + 1] = compare_motifs_all_cpp_pair(i, i + k)

\* C14 happens: two motifs were compared, the first row holds the self-pair
\* and the cross pair with different scores, the second row the self-pair
C14_Witness ==
  /\ e_fn = "compare_motifs_all_cpp" /\ e_pc = "done"
  /\ Len(e_mots) = 2 /\ Len(e_out) = 2
  /\ Len(e_out[1]) = 2 /\ Len(e_out[2]) = 1
  /\ e_out[1][1] # e_out[1][2]

\* the sum of the first k entries of nsites
RECURSIVE NsitesSum(_)
NsitesSum(k) == IF k = 0 THEN 0 ELSE FAdd(NsitesSum(k - 1), MergeNsites[k])

\* the sum over the motifs of entry j of the backgrounds the folds are given
RECURSIVE BkgSum(_, _)
BkgSum(j, k) == IF k = 0 THEN 0 ELSE BkgSum(j, k - 1) + e_bkg[k][j]

MergeStepsAgree ==
  (e_fn = "merge_motifs_cpp" /\ e_pc = "done" /\ m_acc # NoValue) =>
    \E r \in {MergeAll(e_vmots, e_ic, e_bkg)} :
      e_out = <<cpp_to_R_motif(r.merged), r.bkg>> /\ e_scores = r.scores

\* the number of elements of a collection of a call: one background per
\* entry of bkg, one entry of vmots, icscores and nsites per motif, one entry
\* of toadd per motif after the first
CollectionSize(c) ==
  IF c = "bkg" THEN Len(e_bkg0)
  ELSE IF c = "toadd" THEN Len(e_mots) - 1
  ELSE Len(e_mots)

\* C24: for a non-empty motif collection with one background per motif,
\* merge_motifs_cpp and view_motifs_prep read the motifs, backgrounds, nsites
\* and their per-motif arrays only at indices inside these collections, and
\* do not take the maximum of an empty list; one motif included.
C24_ReadsInsideCollections ==
  (/\ e_fn \in {"merge_motifs_cpp", "view_motifs_prep"}
   /\ Len(e_mots) >= 1 /\ Len(e_bkg0) = Len(e_mots)
   /\ e_args.minic >= 0 /\ e_args.posic >= 0) =>
    \A rd \in e_reads : rd[2] < CollectionSize(rd[1])

(***************************************************************************)
(* Claims about the helper functions                                       *)
(***************************************************************************)
SmoothedMetrics == {"KL", "IS", "ALLR", "ALLR_LL"}

\* C16: fix_mot_bkg_zeros changes its arguments only for KL, IS, ALLR and
\* ALLR_LL: every cell of the motif grows by 0.01, once, and every background
\* entry grows by 0.01 / alphabet size exactly when some background entry is
\* zero; for every other metric motif and background are left as they were.
C16_SmoothingFrame ==
  (u_fn = "fix_mot_bkg_zeros" /\ u_pc = "done") =>
    IF u_in.method \in SmoothedMetrics
    THEN /\ Len(u_out.mot) = Len(u_in.mot)
         /\ \A i \in 1..Len(u_in.mot) :
              /\ Len(u_out.mot[i]) = Len(u_in.mot[i])
              /\ \A j \in 1..Len(u_in.mot[i]) :
                   u_out.mot[i][j] = u_in.mot[i][j] + Scale \div 100
         /\ Len(u_out.bkg) = Len(u_in.bkg)
         /\ IF \E k \in 1..Len(u_in.bkg) : u_in.bkg[k] = 0
            THEN \A k \in 1..Len(u_in.bkg) :
                   u_out.bkg[k] = u_in.bkg[k] + (Scale \div 100) \div Len(u_in.bkg)
            ELSE u_out.bkg = u_in.bkg
    ELSE u_out.mot = u_in.mot /\ u_out.bkg = u_in.bkg

\* C16 happens: a smoothed metric was given a background without a zero, the
\* motif was smoothed and the background kept
C16_Witness ==
  /\ u_fn = "fix_mot_bkg_zeros" /\ u_pc = "done" /\ u_in.method = "IS"
  /\ u_in.bkg = <<Scale \div 2, Scale \div 2>>
  /\ u_out.bkg = u_in.bkg /\ u_out.mot # u_in.mot

\* C19: after trim_both_motifs on two aligned motifs of one length with a
\* column that holds data in both, neither the first nor the last column of
\* the result is padding in both motifs, however many columns were padding in
\* both on the left and on the right; the result is a contiguous range of the
\* columns, the same range of both motifs.
C19_TrimBothEnds ==
  (/\ u_fn = "trim_both_motifs" /\ u_pc = "done"
   /\ \E k \in 1..Len(u_in.m1) : IsData(u_in.m1[k]) /\ IsData(u_in.m2[k])) =>
    /\ Len(u_out.m1) = Len(u_out.m2) /\ Len(u_out.m1) >= 1
    /\ ~BothPad(u_out.m1, u_out.m2, 0)
    /\ ~BothPad(u_out.m1, u_out.m2, Len(u_out.m1) - 1)
    /\ \E lo \in 0..(Len(u_in.m1) - Len(u_out.m1)) :
         \A k \in 1..Len(u_out.m1) :
           u_out.m1[k] = u_in.m1[lo + k] /\ u_out.m2[k] = u_in.m2[lo + k]

\* mot (or an IC array) is padded, the original columns of it standing
\* behind k added columns and before k more
PaddedBy(padded, orig, k) ==
  /\ Len(padded) = Len(orig) + 2 * k
  /\ \A i \in 1..Len(orig) : padded[k + i] = orig[i]

\* all of the k first and the k last columns of mot are padding markers
PaddingAtEnds(mot, k) ==
  \A i \in 1..k : mot[i] = PadCol(Len(mot[i])) /\ mot[Len(mot) + 1 - i] = PadCol(Len(mot[i]))

\* both motifs need padding: each overlap target leaves columns of the other
\* motif uncovered
BothNeedPadding(w1, w2, overlap) ==
  /\ OverlapColumns(overlap, w1) < w2
  /\ OverlapColumns(overlap, w2) < w1

\* C20: equalize_mot_cols pads only the narrower motif (the second when the
\* widths are equal) and leaves the other motif and its IC array unchanged;
\* it adds the same number of padding columns on each end, the wider width
\* minus the padded motif's overlap target (the overlap in columns, or the
\* floor of the fraction of its own width); when either motif needs no
\* padding nothing is changed; afterwards each motif has 1 + (its width - the
\* smaller width) start offsets.
C20_EqualizePadsNarrower ==
  (u_fn = "equalize_mot_cols" /\ u_pc = "done") =>
    /\ IF ~BothNeedPadding(Len(u_in.mot1), Len(u_in.mot2), u_in.overlap)
       THEN /\ u_out.mot1 = u_in.mot1 /\ u_out.ic1 = u_in.ic1
            /\ u_out.mot2 = u_in.mot2 /\ u_out.ic2 = u_in.ic2
       ELSE IF Len(u_in.mot1) < Len(u_in.mot2)
       THEN /\ u_out.mot2 = u_in.mot2 /\ u_out.ic2 = u_in.ic2
            /\ \E k \in {Len(u_in.mot2) - OverlapColumns(u_in.overlap, Len(u_in.mot1))} :
                 /\ PaddedBy(u_out.mot1, u_in.mot1, k)
                 /\ PaddedBy(u_out.ic1, u_in.ic1, k)
                 /\ PaddingAtEnds(u_out.mot1, k)
       ELSE /\ u_out.mot1 = u_in.mot1 /\ u_out.ic1 = u_in.ic1
            /\ \E k \in {Len(u_in.mot1) - OverlapColumns(u_in.overlap, Len(u_in.mot2))} :
                 /\ PaddedBy(u_out.mot2, u_in.mot2, k)
                 /\ PaddedBy(u_out.ic2, u_in.ic2, k)
                 /\ PaddingAtEnds(u_out.mot2, k)
    /\ u_out.fori = 1 + (Len(u_out.mot1) - Min2(Len(u_out.mot1), Len(u_out.mot2)))
    /\ u_out.forj = 1 + (Len(u_out.mot2) - Min2(Len(u_out.mot1), Len(u_out.mot2)))

\* C20 happens: widths 3 and 4 with the overlap fraction 0.5: the first motif
\* gets 4 - 1 = 3 columns on each end and 6 start offsets, the second stays
C20_Witness ==
  /\ u_fn = "equalize_mot_cols" /\ u_pc = "done"
  /\ Len(u_in.mot1) = 3 /\ Len(u_in.mot2) = 4 /\ u_in.overlap = Scale \div 2
  /\ Len(u_out.mot1) = 9 /\ u_out.mot2 = u_in.mot2
  /\ u_out.fori = 6 /\ u_out.forj = 1

\* the minimum-overlap target of a motif of width w against one of width v:
\* the overlap in columns, a fraction taken of the motif's own width, and at
\* most the narrower width
OverlapTarget(overlap, w, v) == Min2(OverlapColumns(overlap, w), Min2(w, v))

\* C21: without a position threshold every alignment compare_motif_pair
\* enumerates has at least as many comparable columns as the minimum-overlap
\* target of the first motif and as that of the second motif.
C21_OverlapTargetsMet ==
  (u_fn = "compare_motif_pair" /\ u_pc = "done") =>
    \A c \in 1..(Len(u_out.fwd) + Len(u_out.rc)) :
      \E n \in {(u_out.fwd \o u_out.rc)[c]} :
        /\ n >= OverlapTarget(u_in.overlap, Len(u_in.mot1), Len(u_in.mot2))
        /\ n >= OverlapTarget(u_in.overlap, Len(u_in.mot2), Len(u_in.mot1))

\* the comparable values of a call of calc_final_score that are above 0
PositiveComparable(sc, good) ==
  KeepFrom(sc, [i \in 1..Len(sc) |-> good[i] /\ FGt(sc[i], 0)], 1)

\* the natural logs of the values vals
LogsOf(vals) == [i \in 1..Len(vals) |-> FLog(vals[i])]

\* C22: "g.mean" returns the exponential of the mean of the natural logs of
\* the comparable values above 0, the mean taken over these values, and 0
\* only when no comparable value is above 0: comparable values that are all 1
\* give 1, and zeros among the comparable values do not enter the mean.
C22_GeometricMean ==
  (u_fn = "calc_final_score" /\ u_pc = "done") =>
    \E pos \in {PositiveComparable(u_in.scores, u_in.good)} :
      IF Len(pos) = 0 THEN u_out = 0
      ELSE u_out = FExp(FDivInt(Accumulate(LogsOf(pos)), Len(pos)))

=============================================================================
